---- MODULE Spec2Model ----
(***************************************************************************)
(* Film-grade engine of GH-Flim-Review (src/film_grade.py): the code       *)
(* language parser parse_codes_to_points and the grading function          *)
(* compute_row, as main() applies it to one spreadsheet row after another. *)
(*                                                                         *)
(* Representation.                                                         *)
(*  - A Python str is a sequence of one-character strings.                 *)
(*  - A Python object is a record [t, v, s]: t is its type ("int",         *)
(*    "float", "nan" for float('nan'), "str"), v its number, s its text.   *)
(*  - A Python float is a fixed-point number: v counts units of 1/Scale,   *)
(*    every operation rounds to the nearest unit (IEEE doubles round to    *)
(*    the nearest of 2^53 steps; the model keeps the rounding and a        *)
(*    coarser step).  NaN is a value of its own and propagates as in       *)
(*    Python, including through min() and max().                           *)
(*  - A row (pandas Series / dict) is a function from column names to      *)
(*    Python objects; a missing column is a name outside its DOMAIN.       *)
(***************************************************************************)
EXTENDS Integers, Sequences, FiniteSets, TLC

VARIABLES
    pc,         \* position inside main()/compute_row for the current row
    r,          \* the row handed to compute_row (never written by it)
    ma,         \* compute_row's local `ma`
    loafs,      \* compute_row's local `loafs`
    snaps_val,  \* compute_row's local `snaps_val`
    parsed,     \* the 5-tuple returned by parse_codes_to_points
    keyplays,   \* compute_row's local `keyplays`
    rate,       \* the eight core rates
    score,      \* compute_row's local `score`
    grade,      \* compute_row's local `grade`
    out,        \* the output row: pd.concat([df, calc_rows], axis=1)
    exc,        \* the exception that left compute_row, "" when none
    annotation, \* SpecParse: the codes cell given to the parser
    typed,      \* SpecParse: how many fragments were typed into the cell
    agg,        \* SpecParse: what the parser returned for it
    df_raw,     \* SpecMain: main's df_raw, the sheet as read
    df,         \* SpecMain: main's df, after normalize_cols
    calc_rows,  \* SpecMain: the dicts compute_row returned so far
    out_df,     \* SpecMain: main's out, the rows written to the results CSV
    files,      \* SpecMain: what main has created on disk
    message,    \* SpecMain: the columns named by SystemExit
    week_args,  \* SpecWeek: run_week's arguments and the files it finds
    csv_path,   \* SpecWeek: run_week's csv_path
    started,    \* SpecWeek: the scripts run_week has started, in order
    returncodes \* SpecWeek: the exit codes of the scripts that have exited

vars == <<pc, r, ma, loafs, snaps_val, parsed, keyplays, rate, score, grade,
          out, exc, annotation, typed, agg,
          df_raw, df, calc_rows, out_df, files, message,
          week_args, csv_path, started, returncodes>>

---------------------------------------------------------------------------
(* Python objects *)

Scale == 1000

PyInt(n)   == [t |-> "int",   v |-> n, s |-> <<>>]
PyFloat(x) == [t |-> "float", v |-> x, s |-> <<>>]
NaN        == [t |-> "nan",   v |-> 0, s |-> <<>>]
PyStr(cs)  == [t |-> "str",   v |-> 0, s |-> cs]
Unset      == [t |-> "unset", v |-> 0, s |-> <<>>]

\* isinstance(x, str), isinstance(x, (int, float))
IsStr(x)    == x.t = "str"
IsNumber(x) == x.t \in {"int", "float", "nan"}

Abs(n) == IF n < 0 THEN -n ELSE n
Sgn(n) == IF n < 0 THEN -1 ELSE 1

\* n / d rounded to the nearest integer (d > 0, n >= 0)
RoundDiv(n, d) == (2 * n + d) \div (2 * d)

---------------------------------------------------------------------------
(* Characters and str methods *)

Whitespace == {" ", "\t"}
Digits     == {"0", "1", "2", "3", "4", "5", "6", "7", "8", "9"}

DigitVal == ("0" :> 0) @@ ("1" :> 1) @@ ("2" :> 2) @@ ("3" :> 3) @@ ("4" :> 4)
            @@ ("5" :> 5) @@ ("6" :> 6) @@ ("7" :> 7) @@ ("8" :> 8) @@ ("9" :> 9)

ToUpper == [a |-> "A", b |-> "B", c |-> "C", d |-> "D", e |-> "E", f |-> "F",
            g |-> "G", h |-> "H", i |-> "I", j |-> "J", k |-> "K", l |-> "L",
            m |-> "M", n |-> "N", o |-> "O", p |-> "P", q |-> "Q", r |-> "R",
            s |-> "S", t |-> "T", u |-> "U", v |-> "V", w |-> "W", x |-> "X",
            y |-> "Y", z |-> "Z"]

\* str.upper()
Upper(cs) == [i \in 1..Len(cs) |->
                IF cs[i] \in DOMAIN ToUpper THEN ToUpper[cs[i]] ELSE cs[i]]

\* str.strip()
RECURSIVE LStrip(_)
LStrip(cs) == IF cs # <<>> /\ Head(cs) \in Whitespace THEN LStrip(Tail(cs)) ELSE cs

RECURSIVE RStrip(_)
RStrip(cs) == IF cs # <<>> /\ cs[Len(cs)] \in Whitespace
              THEN RStrip(SubSeq(cs, 1, Len(cs) - 1)) ELSE cs

Strip(cs) == RStrip(LStrip(cs))

\* the characters of cs as one TLA+ string (a dict key)
RECURSIVE Join(_)
Join(cs) == IF cs = <<>> THEN "" ELSE Head(cs) \o Join(Tail(cs))

\* the value of a run of decimal digits
RECURSIVE DigitsValue(_)
DigitsValue(cs) == IF cs = <<>> THEN 0
                   ELSE 10 * DigitsValue(SubSeq(cs, 1, Len(cs) - 1)) + DigitVal[cs[Len(cs)]]

\* -?\d+ over the whole of cs
IsIntLiteral(cs) ==
    LET body == IF cs # <<>> /\ Head(cs) = "-" THEN Tail(cs) ELSE cs
    IN  body # <<>> /\ \A i \in 1..Len(body) : body[i] \in Digits

IntLiteralValue(cs) ==
    IF Head(cs) = "-" THEN 0 - DigitsValue(Tail(cs)) ELSE DigitsValue(cs)

---------------------------------------------------------------------------
(* float(), int(), and float arithmetic *)

\* float(x) succeeds (no ValueError); a str must hold an integer literal
CanFloat(x) == \/ x.t \in {"int", "float", "nan"}
               \/ x.t = "str" /\ IsIntLiteral(Strip(x.s))

float(x) == CASE x.t = "int"   -> PyFloat(x.v * Scale)
              [] x.t = "float" -> x
              [] x.t = "nan"   -> NaN
              [] x.t = "str"   -> PyFloat(IntLiteralValue(Strip(x.s)) * Scale)

\* int(x) succeeds: int(float('nan')) and int('n/a') raise ValueError
CanInt(x) == \/ x.t \in {"int", "float"}
             \/ x.t = "str" /\ IsIntLiteral(Strip(x.s))

int(x) == CASE x.t = "int"   -> x.v
            [] x.t = "float" -> Sgn(x.v) * (Abs(x.v) \div Scale)
            [] x.t = "str"   -> IntLiteralValue(Strip(x.s))

IsNaN(x) == x.t = "nan"

\* the float literal units.thousandths
Dec(units, thousandths) == PyFloat(units * Scale + (thousandths * Scale) \div 1000)

FAdd(a, b) == IF IsNaN(a) \/ IsNaN(b) THEN NaN ELSE PyFloat(a.v + b.v)
FSub(a, b) == IF IsNaN(a) \/ IsNaN(b) THEN NaN ELSE PyFloat(a.v - b.v)

\* a * b, from the whole and fractional parts of |a| and |b|
FMul(a, b) ==
    IF IsNaN(a) \/ IsNaN(b) THEN NaN
    ELSE LET xi == Abs(a.v) \div Scale
             xf == Abs(a.v) % Scale
             yi == Abs(b.v) \div Scale
             yf == Abs(b.v) % Scale
         IN  PyFloat(Sgn(a.v) * Sgn(b.v)
                     * (xi * yi * Scale + xi * yf + xf * yi + RoundDiv(xf * yf, Scale)))

\* a / b for b # 0
FDiv(a, b) ==
    IF IsNaN(a) \/ IsNaN(b) THEN NaN
    ELSE LET x == Abs(a.v)
             y == Abs(b.v)
         IN  PyFloat(Sgn(a.v) * Sgn(b.v)
                     * ((x \div y) * Scale + RoundDiv((x % y) * Scale, y)))

\* a < b, a <= b, a == b on floats: every comparison with NaN is False
FLt(a, b) == ~IsNaN(a) /\ ~IsNaN(b) /\ a.v < b.v
FLe(a, b) == ~IsNaN(a) /\ ~IsNaN(b) /\ a.v <= b.v
FEq(a, b) == ~IsNaN(a) /\ ~IsNaN(b) /\ a.v = b.v

\* min(a, b) and max(a, b): the first argument unless the second beats it
min(a, b) == IF FLt(b, a) THEN b ELSE a
max(a, b) == IF FLt(a, b) THEN b ELSE a

RECURSIVE SqrtSearch(_, _, _)
SqrtSearch(n, lo, hi) ==
    IF lo >= hi THEN lo
    ELSE LET mid == (lo + hi + 1) \div 2
         IN  IF mid * mid <= n THEN SqrtSearch(n, mid, hi)
             ELSE SqrtSearch(n, lo, mid - 1)

\* math.sqrt(a) for a > 0, rounded to the nearest unit
sqrt(a) ==
    LET n    == a.v * Scale
        root == SqrtSearch(n, 0, IF n < 46340 THEN n ELSE 46340)
    IN  PyFloat(IF n - root * root > root THEN root + 1 ELSE root)

\* x + y on two row values: str + int raises TypeError
CanAdd(x, y) == \/ IsNumber(x) /\ IsNumber(y)
                \/ IsStr(x) /\ IsStr(y)

add(x, y) == CASE IsStr(x)                    -> PyStr(x.s \o y.s)
               [] x.t = "int" /\ y.t = "int"  -> PyInt(x.v + y.v)
               [] OTHER                       -> FAdd(float(x), float(y))

---------------------------------------------------------------------------
(* The code language parser *)

LEGEND_POINTS == [TD |-> 15, E |-> 5, ER |-> 7, GR |-> 2, GB |-> 2, P |-> 10,
                  FD |-> 5, MA |-> -10, SC |-> 10, DP |-> -15, H |-> 0,
                  BR |-> -2, L |-> -2, NFS |-> -3, W |-> -1]

\* mutant: a hustle play counts as a key play
POSITIVE_CODES_FOR_KEYPLAYS_WithHustle == {"TD", "SC", "ER", "GR", "GB", "P", "FD", "E", "H"}

POSITIVE_CODES_FOR_KEYPLAYS == {"TD", "SC", "ER", "GR", "GB", "P", "FD", "E"}

\* mutant: the parentheses are deleted instead of replaced by a space
ReplaceParens_Deleted(cs) == SelectSeq(cs, LAMBDA ch : ch \notin {"(", ")"})

\* codes_str.replace('(', ' ').replace(')', ' ')
ReplaceParens(cs) == [i \in 1..Len(cs) |->
                        IF cs[i] \in {"(", ")"} THEN " " ELSE cs[i]]

\* mutant: only white space separates tokens
IsSeparator_WhitespaceOnly(ch) == ch \in Whitespace

\* the class [\s,;]
IsSeparator(ch) == ch \in Whitespace \cup {",", ";"}

\* re.split(r'[\s,;]+', cs): the pieces between maximal runs of separators,
\* empty pieces at either end included
RECURSIVE re_split(_)
re_split(cs) ==
    IF \A i \in 1..Len(cs) : ~IsSeparator(cs[i]) THEN <<cs>>
    ELSE LET first == CHOOSE i \in 1..Len(cs) :
                        /\ IsSeparator(cs[i])
                        /\ \A k \in 1..(i - 1) : ~IsSeparator(cs[k])
             last  == CHOOSE j \in first..Len(cs) :
                        /\ \A k \in first..j : IsSeparator(cs[k])
                        /\ (j = Len(cs) \/ ~IsSeparator(cs[j + 1]))
         IN  <<SubSeq(cs, 1, first - 1)>> \o re_split(SubSeq(cs, last + 1, Len(cs)))

\* [t.strip() for t in tokens if t.strip()]
RECURSIVE StripTokens(_)
StripTokens(pieces) ==
    IF pieces = <<>> THEN <<>>
    ELSE IF Strip(Head(pieces)) = <<>> THEN StripTokens(Tail(pieces))
         ELSE <<Strip(Head(pieces))>> \o StripTokens(Tail(pieces))

Tokens(cs) == StripTokens(re_split(ReplaceParens(cs)))

\* index of the first character of tok at or after `from` that is not in `set`
RECURSIVE SkipWhile(_, _, _)
SkipWhile(tok, from, set) ==
    IF from <= Len(tok) /\ tok[from] \in set THEN SkipWhile(tok, from + 1, set)
    ELSE from

NoMatch == [ok |-> FALSE, n |-> <<>>]

\* mutant: the pattern is compiled without re.IGNORECASE
PatternMatch_CaseSensitive(tok, letter) ==
    LET p0 == IF Len(tok) >= 1 /\ tok[1] = "(" THEN 2 ELSE 1
        p1 == SkipWhile(tok, p0, Whitespace)
        p2 == IF p1 + 2 <= Len(tok) /\ tok[p1 + 2] = "-" THEN p1 + 3 ELSE p1 + 2
        p3 == SkipWhile(tok, p2, Digits)
        p4 == SkipWhile(tok, p3, Whitespace)
        p5 == IF p4 <= Len(tok) /\ tok[p4] = ")" THEN p4 + 1 ELSE p4
    IN  IF /\ p1 + 1 <= Len(tok)
           /\ tok[p1] = letter
           /\ tok[p1 + 1] = "+"
           /\ p3 > p2
           /\ p5 = Len(tok) + 1
        THEN [ok |-> TRUE, n |-> SubSeq(tok, p1 + 2, p3 - 1)]
        ELSE NoMatch

\* ^(?:\(?\s*)?X\+(?P<n>-?\d+)(?:\s*\)?)?$ with re.IGNORECASE, X = letter;
\* the result carries m.group('n')
PatternMatch(tok, letter) ==
    LET p0 == IF Len(tok) >= 1 /\ tok[1] = "(" THEN 2 ELSE 1
        p1 == SkipWhile(tok, p0, Whitespace)
        p2 == IF p1 + 2 <= Len(tok) /\ tok[p1 + 2] = "-" THEN p1 + 3 ELSE p1 + 2
        p3 == SkipWhile(tok, p2, Digits)
        p4 == SkipWhile(tok, p3, Whitespace)
        p5 == IF p4 <= Len(tok) /\ tok[p4] = ")" THEN p4 + 1 ELSE p4
    IN  IF /\ p1 + 1 <= Len(tok)
           /\ Upper(<<tok[p1]>>) = <<letter>>
           /\ tok[p1 + 1] = "+"
           /\ p3 > p2
           /\ p5 = Len(tok) + 1
        THEN [ok |-> TRUE, n |-> SubSeq(tok, p1 + 2, p3 - 1)]
        ELSE NoMatch

PATTERN_CATCH_YARDS(tok) == PatternMatch(tok, "C")
PATTERN_RUSH_YARDS(tok)  == PatternMatch(tok, "R")

\* the aggregates before the first token: total, counts, yards_c, yards_r,
\* derived_keyplays; `raised` names the exception that ended the call, if any
ZeroAggregates == [total            |-> PyInt(0),
                   counts           |-> [code \in DOMAIN LEGEND_POINTS |-> 0],
                   yards_c          |-> 0,
                   yards_r          |-> 0,
                   derived_keyplays |-> 0,
                   raised           |-> ""]

\* total += x, where total is an int until a float has been added to it
AddPoints(total, x) == add(total, x)

\* the call ends with an exception
Raise(acc, exception) == [acc EXCEPT !.raised = exception]

\* mutant: a yardage token counts as a key play as well
AddYards_AsKeyPlay(acc, group, field) ==
    IF ~CanInt(PyStr(group)) THEN Raise(acc, "ValueError")
    ELSE LET n == int(PyStr(group))
         IN  [acc EXCEPT !.total  = AddPoints(@, FMul(Dec(0, 500), float(PyInt(n)))),
                         ![field] = @ + n,
                         !.derived_keyplays = @ + 1]

\* mutant: a yard is worth a whole point
AddYards_FullPoint(acc, group, field) ==
    IF ~CanInt(PyStr(group)) THEN Raise(acc, "ValueError")
    ELSE LET n == int(PyStr(group))
         IN  [acc EXCEPT !.total  = AddPoints(@, FMul(Dec(1, 0), float(PyInt(n)))),
                         ![field] = @ + n]

\* n = int(m.group('n')); total += 0.5 * n; yards += n
AddYards(acc, group, field) ==
    IF ~CanInt(PyStr(group)) THEN Raise(acc, "ValueError")
    ELSE LET n == int(PyStr(group))
         IN  [acc EXCEPT !.total  = AddPoints(@, FMul(Dec(0, 500), float(PyInt(n)))),
                         ![field] = @ + n]

\* mutant: the legend is indexed without testing that the token is a code
ParseToken_NoLookupGuard(acc, tok) ==
    LET m_c  == PATTERN_CATCH_YARDS(tok)
        m_r  == PATTERN_RUSH_YARDS(tok)
        t_up == Join(Upper(tok))
    IN  IF m_c.ok THEN AddYards(acc, m_c.n, "yards_c")
        ELSE IF m_r.ok THEN AddYards(acc, m_r.n, "yards_r")
        ELSE IF t_up \in DOMAIN LEGEND_POINTS
        THEN [acc EXCEPT !.total            = AddPoints(@, PyInt(LEGEND_POINTS[t_up])),
                         !.counts[t_up]     = @ + 1,
                         !.derived_keyplays =
                             IF t_up \in POSITIVE_CODES_FOR_KEYPLAYS THEN @ + 1 ELSE @]
        ELSE Raise(acc, "KeyError")

\* mutant: the legend is looked up without upper-casing the token
ParseToken_CaseSensitive(acc, tok) ==
    LET m_c  == PATTERN_CATCH_YARDS(tok)
        m_r  == PATTERN_RUSH_YARDS(tok)
        t_up == Join(tok)
    IN  IF m_c.ok THEN AddYards(acc, m_c.n, "yards_c")
        ELSE IF m_r.ok THEN AddYards(acc, m_r.n, "yards_r")
        ELSE IF t_up \in DOMAIN LEGEND_POINTS
        THEN [acc EXCEPT !.total            = AddPoints(@, PyInt(LEGEND_POINTS[t_up])),
                         !.counts[t_up]     = @ + 1,
                         !.derived_keyplays =
                             IF t_up \in POSITIVE_CODES_FOR_KEYPLAYS THEN @ + 1 ELSE @]
        ELSE acc

\* one pass of the `for t in tokens` body
ParseToken(acc, tok) ==
    LET m_c  == PATTERN_CATCH_YARDS(tok)
        m_r  == PATTERN_RUSH_YARDS(tok)
        t_up == Join(Upper(tok))
    IN  IF m_c.ok THEN AddYards(acc, m_c.n, "yards_c")
        ELSE IF m_r.ok THEN AddYards(acc, m_r.n, "yards_r")
        ELSE IF t_up \in DOMAIN LEGEND_POINTS
        THEN [acc EXCEPT !.total            = AddPoints(@, PyInt(LEGEND_POINTS[t_up])),
                         !.counts[t_up]     = @ + 1,
                         !.derived_keyplays =
                             IF t_up \in POSITIVE_CODES_FOR_KEYPLAYS THEN @ + 1 ELSE @]
        ELSE acc

RECURSIVE ParseLoop(_, _)

\* mutant: a yardage token ends the loop (break in the place of continue)
ParseLoop_BreakAfterYardage(acc, toks) ==
    IF toks = <<>> \/ acc.raised # "" THEN acc
    ELSE IF PATTERN_CATCH_YARDS(Head(toks)).ok \/ PATTERN_RUSH_YARDS(Head(toks)).ok
         THEN ParseToken(acc, Head(toks))
         ELSE ParseLoop(ParseToken(acc, Head(toks)), Tail(toks))

\* the `for t in tokens` loop; an exception leaves it
ParseLoop(acc, toks) ==
    IF toks = <<>> \/ acc.raised # "" THEN acc
    ELSE ParseLoop(ParseToken(acc, Head(toks)), Tail(toks))

\* mutant: the isinstance test is dropped, so .strip() is called on whatever
\* the cell holds
parse_codes_to_points_NoTypeTest(codes_str) ==
    IF ~IsStr(codes_str) THEN Raise(ZeroAggregates, "AttributeError")
    ELSE IF Strip(codes_str.s) = <<>> THEN ZeroAggregates
    ELSE ParseLoop(ZeroAggregates, Tokens(codes_str.s))

\* mutant: the aggregates live on between calls instead of starting at zero
parse_codes_to_points_SharedAggregates(codes_str) ==
    IF ~IsStr(codes_str) \/ Strip(codes_str.s) = <<>> THEN ZeroAggregates
    ELSE ParseLoop([parsed EXCEPT !.raised = ""], Tokens(codes_str.s))

\* parse_codes_to_points(codes_str), codes_str any Python object
parse_codes_to_points(codes_str) ==
    IF ~IsStr(codes_str) \/ Strip(codes_str.s) = <<>> THEN ZeroAggregates
    ELSE ParseLoop(ZeroAggregates, Tokens(codes_str.s))

---------------------------------------------------------------------------
(* The grading engine *)

\* r.get(key, default)
Get(row, key, default) == IF key \in DOMAIN row THEN row[key] ELSE default

safe_div(n, d) ==
    IF CanFloat(n) /\ CanFloat(d)
    THEN IF FEq(float(d), Dec(0, 0)) THEN Dec(0, 0) ELSE FDiv(float(n), float(d))
    ELSE Dec(0, 0)

\* mutant: only a snap count of exactly zero is guarded
per30_ZeroOnly(n, snap_count) ==
    IF CanFloat(snap_count) /\ CanFloat(n)
    THEN IF FEq(float(snap_count), Dec(0, 0)) THEN Dec(0, 0)
         ELSE FDiv(FMul(float(n), Dec(30, 0)), float(snap_count))
    ELSE Dec(0, 0)

per30(n, snap_count) ==
    IF CanFloat(snap_count) /\ CanFloat(n)
    THEN IF FLe(float(snap_count), Dec(0, 0)) THEN Dec(0, 0)
         ELSE FDiv(FMul(float(n), Dec(30, 0)), float(snap_count))
    ELSE Dec(0, 0)

\* mutant: the lower bound is forgotten
clamp_NoFloor(x, lo, hi) == min(hi, x)

clamp(x, lo, hi) == max(lo, min(hi, x))

\* mutant: the bands exclude their lower bounds (> in place of >=)
letter_Exclusive(sc) == IF FLt(Dec(90, 0), sc) THEN "A"
                        ELSE IF FLt(Dec(80, 0), sc) THEN "B"
                        ELSE IF FLt(Dec(70, 0), sc) THEN "C"
                        ELSE IF FLt(Dec(60, 0), sc) THEN "D"
                        ELSE "F"

letter(sc) == IF FLe(Dec(90, 0), sc) THEN "A"
              ELSE IF FLe(Dec(80, 0), sc) THEN "B"
              ELSE IF FLe(Dec(70, 0), sc) THEN "C"
              ELSE IF FLe(Dec(60, 0), sc) THEN "D"
              ELSE "F"

\* compute_row's reads of the row, lines 153-163
snaps(row)       == Get(row, "snaps", PyInt(0))
targets(row)     == Get(row, "targets", PyInt(0))
catches(row)     == Get(row, "catches", PyInt(0))
rec_yards(row)   == Get(row, "recyards", Get(row, "rec_yards", PyInt(0)))
rush_yards(row)  == Get(row, "rushyards", Get(row, "rush_yards", PyInt(0)))
touchdowns(row)  == Get(row, "touchdowns", PyInt(0))
drops(row)       == Get(row, "drops", PyInt(0))
ma_in(row)       == Get(row, "missedassignments", Get(row, "missed_assignments", PyInt(0)))
loafs_in(row)    == Get(row, "loafs", PyInt(0))
keyplays_in(row) == Get(row, "key_plays", Get(row, "keyplays", PyInt(0)))
codes_str(row)   == Get(row, "codes", PyStr(<<>>))

\* try: snaps_val = int(snaps) / except Exception: snaps_val = 0
SnapsVal(row) == IF CanInt(snaps(row)) THEN int(snaps(row)) ELSE 0

\* snaps_val <= 0, the guard of the snap-gating
NoSnaps(sv) == sv <= 0

\* a discipline counter after lines 170-172
Gated(sv, counter) == IF NoSnaps(sv) THEN PyInt(0) ELSE counter

\* mutant: the codes are not stripped before the test
CodesProvided_NoStrip(codes) == IsStr(codes) /\ codes.s # <<>>

\* isinstance(codes_str, str) and codes_str.strip()
CodesProvided(codes) == IsStr(codes) /\ Strip(codes.s) # <<>>

\* mutant: the raw counter is kept although codes are provided
Overridden_KeepsRaw(codes, code_counts, code, counter) == counter

\* a discipline counter after lines 177-182: int(code_counts.get(code, 0))
\* when codes are provided
Overridden(codes, code_counts, code, counter) ==
    IF CodesProvided(codes)
    THEN PyInt(IF code \in DOMAIN code_counts THEN code_counts[code] ELSE 0)
    ELSE counter

\* mutant: a supplied zero counts as an explicit key-play count
ResolvedKeyplays_NonNegative(kp_in, derived_kp) ==
    IF IsNumber(kp_in) /\ ~IsNaN(kp_in) /\ kp_in.v >= 0 THEN kp_in ELSE PyInt(derived_kp)

\* keyplays_in if (isinstance(keyplays_in, (int,float)) and keyplays_in > 0) else derived_kp
ResolvedKeyplays(kp_in, derived_kp) ==
    IF IsNumber(kp_in) /\ ~IsNaN(kp_in) /\ kp_in.v > 0 THEN kp_in ELSE PyInt(derived_kp)

\* mutant: the rushing yards are left out of yards_per_target
CoreRateValues_RecOnly(row, row_ma, row_loafs, kp) ==
    [catch_rate       |-> safe_div(catches(row), targets(row)),
     yards_per_target |-> safe_div(rec_yards(row), targets(row)),
     tds_per30        |-> per30(touchdowns(row), snaps(row)),
     keyplays_per30   |-> per30(kp, snaps(row)),
     targets_per30    |-> per30(targets(row), snaps(row)),
     drops_rate       |-> safe_div(drops(row), targets(row)),
     loafs_per30      |-> per30(row_loafs, snaps(row)),
     ma_per30         |-> per30(row_ma, snaps(row))]

\* the eight core rates, lines 188-195
CoreRateValues(row, row_ma, row_loafs, kp) ==
    [catch_rate       |-> safe_div(catches(row), targets(row)),
     yards_per_target |-> safe_div(add(rec_yards(row), rush_yards(row)), targets(row)),
     tds_per30        |-> per30(touchdowns(row), snaps(row)),
     keyplays_per30   |-> per30(kp, snaps(row)),
     targets_per30    |-> per30(targets(row), snaps(row)),
     drops_rate       |-> safe_div(drops(row), targets(row)),
     loafs_per30      |-> per30(row_loafs, snaps(row)),
     ma_per30         |-> per30(row_ma, snaps(row))]

\* mutant: the loafs penalty is capped like the missed-assignment penalty
ScoreValue_LoafsCapped(rt) ==
    LET base           == Dec(73, 0)
        yards_term     == FMul(Dec(1, 500), min(safe_div(rt.yards_per_target, Dec(8, 0)), Dec(1, 0)))
        tds_term       == FMul(Dec(12, 0), min(rt.tds_per30, Dec(1, 0)))
        kp_sqrt_capped == min(IF FLt(Dec(0, 0), rt.keyplays_per30)
                              THEN sqrt(rt.keyplays_per30) ELSE Dec(0, 0),
                              Dec(1, 330))
        keyplays_term  == FMul(Dec(6, 0), kp_sqrt_capped)
        targets_term   == FMul(Dec(4, 0), min(rt.targets_per30, Dec(1, 0)))
        synergy_term   == FMul(Dec(1, 0),
                               min(FMul(rt.catch_rate, safe_div(rt.yards_per_target, Dec(8, 0))),
                                   Dec(1, 0)))
        pos == FAdd(FAdd(FAdd(FAdd(FAdd(FMul(Dec(15, 0), rt.catch_rate), yards_term),
                                        tds_term), keyplays_term), targets_term), synergy_term)
        neg == FAdd(FAdd(FMul(Dec(12, 0), rt.drops_rate),
                         FMul(Dec(4, 0), min(rt.loafs_per30, Dec(1, 0)))),
                    FMul(Dec(9, 0), min(rt.ma_per30, Dec(1, 0))))
    IN  clamp(FSub(FAdd(base, pos), neg), Dec(0, 0), Dec(100, 0))

\* mutant: the penalties are added to the score
ScoreValue_PenaltiesAdded(rt) ==
    LET base           == Dec(73, 0)
        yards_term     == FMul(Dec(1, 500), min(safe_div(rt.yards_per_target, Dec(8, 0)), Dec(1, 0)))
        tds_term       == FMul(Dec(12, 0), min(rt.tds_per30, Dec(1, 0)))
        kp_sqrt_capped == min(IF FLt(Dec(0, 0), rt.keyplays_per30)
                              THEN sqrt(rt.keyplays_per30) ELSE Dec(0, 0),
                              Dec(1, 330))
        keyplays_term  == FMul(Dec(6, 0), kp_sqrt_capped)
        targets_term   == FMul(Dec(4, 0), min(rt.targets_per30, Dec(1, 0)))
        synergy_term   == FMul(Dec(1, 0),
                               min(FMul(rt.catch_rate, safe_div(rt.yards_per_target, Dec(8, 0))),
                                   Dec(1, 0)))
        pos == FAdd(FAdd(FAdd(FAdd(FAdd(FMul(Dec(15, 0), rt.catch_rate), yards_term),
                                        tds_term), keyplays_term), targets_term), synergy_term)
        neg == FAdd(FAdd(FMul(Dec(12, 0), rt.drops_rate),
                         FMul(Dec(4, 0), rt.loafs_per30)),
                    FMul(Dec(9, 0), min(rt.ma_per30, Dec(1, 0))))
    IN  clamp(FAdd(FAdd(base, pos), neg), Dec(0, 0), Dec(100, 0))

\* lines 197-221
ScoreValue(rt) ==
    LET base           == Dec(73, 0)
        yards_term     == FMul(Dec(1, 500), min(safe_div(rt.yards_per_target, Dec(8, 0)), Dec(1, 0)))
        tds_term       == FMul(Dec(12, 0), min(rt.tds_per30, Dec(1, 0)))
        kp_sqrt_capped == min(IF FLt(Dec(0, 0), rt.keyplays_per30)
                              THEN sqrt(rt.keyplays_per30) ELSE Dec(0, 0),
                              Dec(1, 330))
        keyplays_term  == FMul(Dec(6, 0), kp_sqrt_capped)
        targets_term   == FMul(Dec(4, 0), min(rt.targets_per30, Dec(1, 0)))
        synergy_term   == FMul(Dec(1, 0),
                               min(FMul(rt.catch_rate, safe_div(rt.yards_per_target, Dec(8, 0))),
                                   Dec(1, 0)))
        pos == FAdd(FAdd(FAdd(FAdd(FAdd(FMul(Dec(15, 0), rt.catch_rate), yards_term),
                                        tds_term), keyplays_term), targets_term), synergy_term)
        neg == FAdd(FAdd(FMul(Dec(12, 0), rt.drops_rate),
                         FMul(Dec(4, 0), rt.loafs_per30)),
                    FMul(Dec(9, 0), min(rt.ma_per30, Dec(1, 0))))
    IN  clamp(FSub(FAdd(base, pos), neg), Dec(0, 0), Dec(100, 0))

\* flat_counts, line 224
FlatCountKey == [TD |-> "cnt_td", E |-> "cnt_e", ER |-> "cnt_er", GR |-> "cnt_gr",
                 GB |-> "cnt_gb", P |-> "cnt_p", FD |-> "cnt_fd", MA |-> "cnt_ma",
                 SC |-> "cnt_sc", DP |-> "cnt_dp", H |-> "cnt_h", BR |-> "cnt_br",
                 L |-> "cnt_l", NFS |-> "cnt_nfs", W |-> "cnt_w"]

FlatCounts(code_counts) ==
    [key \in {FlatCountKey[code] : code \in DOMAIN code_counts} |->
        PyInt(code_counts[CHOOSE code \in DOMAIN code_counts : FlatCountKey[code] = key])]

\* the dict compute_row returns, lines 226-242
ReturnedDict(rt, sc, gr, pr) ==
    rt @@ [score            |-> sc,
           grade            |-> PyStr(<<gr>>),
           code_points      |-> pr.total,
           code_catch_yards |-> PyInt(pr.yards_c),
           code_rush_yards  |-> PyInt(pr.yards_r),
           derived_keyplays |-> PyInt(pr.derived_keyplays)]
       @@ FlatCounts(pr.counts)

---------------------------------------------------------------------------
(* main(): the sheet, its column names and the key-play columns *)

\* a DataFrame: the column labels in order and, per row, the cells in the
\* order of the labels
NoFrame == [columns |-> <<>>, data |-> <<>>]

\* str.lower()
Lower(cs) == [i \in 1..Len(cs) |->
                IF \E k \in DOMAIN ToUpper : ToUpper[k] = cs[i]
                THEN CHOOSE k \in DOMAIN ToUpper : ToUpper[k] = cs[i]
                ELSE cs[i]]

\* str.isalnum() of one character
isalnum(ch) == \/ ch \in Digits
               \/ ch \in DOMAIN ToUpper
               \/ \E k \in DOMAIN ToUpper : ToUpper[k] = ch

\* str.replace('__', '_'): one pass from the left, matches do not overlap
RECURSIVE ReplaceDoubleUnderscore(_)
ReplaceDoubleUnderscore(cs) ==
    IF Len(cs) < 2 THEN cs
    ELSE IF cs[1] = "_" /\ cs[2] = "_"
         THEN <<"_">> \o ReplaceDoubleUnderscore(SubSeq(cs, 3, Len(cs)))
         ELSE <<cs[1]>> \o ReplaceDoubleUnderscore(Tail(cs))

\* str.strip('_')
RECURSIVE StripUnderscores(_)
StripUnderscores(cs) ==
    IF cs # <<>> /\ Head(cs) = "_" THEN StripUnderscores(Tail(cs))
    ELSE IF cs # <<>> /\ cs[Len(cs)] = "_" THEN StripUnderscores(SubSeq(cs, 1, Len(cs) - 1))
    ELSE cs

\* normalize_cols' norm(c)
norm(c) ==
    LET Kept(ch) == isalnum(ch) \/ ch = "_"
    IN  StripUnderscores(ReplaceDoubleUnderscore(SelectSeq(Lower(c), Kept)))

\* df.rename(columns={c: norm(c) for c in df.columns})
normalize_cols(frame) ==
    [frame EXCEPT !.columns = [k \in 1..Len(frame.columns) |-> norm(frame.columns[k])]]

REQUIRED_COLS_BASE == <<"player", "week", "snaps", "targets", "catches", "rec_yards",
                        "rush_yards", "touchdowns", "drops", "missed_assignments", "loafs">>

\* the labels of a frame, as names
ColumnNames(frame) == {Join(frame.columns[k]) : k \in 1..Len(frame.columns)}

\* ensure_columns' list `missing`
MissingColumns(frame) ==
    LET Lacking(c) == c \notin ColumnNames(frame)
    IN  SelectSeq(REQUIRED_COLS_BASE, Lacking)

\* row i of the frame as df.apply(..., axis=1) hands it to compute_row
RowOf(frame, i) ==
    [name \in ColumnNames(frame) |->
        frame.data[i][CHOOSE k \in 1..Len(frame.columns) : Join(frame.columns[k]) = name]]

\* next((c for c in df_raw.columns if c.strip().lower() == label), None):
\* the position of the first such column, 0 for None
FirstColumn(frame, label) ==
    LET hits == {k \in 1..Len(frame.columns) : Join(Lower(Strip(frame.columns[k]))) = label}
    IN  IF hits = {} THEN 0 ELSE CHOOSE k \in hits : \A other \in hits : k <= other

pos_col(frame) == FirstColumn(frame, "key play ++")
neg_col(frame) == FirstColumn(frame, "key play --")

\* 'codes' in df_raw.columns: the position of the column labelled exactly
\* codes, 0 when there is none
CodesColumn(frame) ==
    LET hits == {k \in 1..Len(frame.columns) : Join(frame.columns[k]) = "codes"}
    IN  IF hits = {} THEN 0 ELSE CHOOSE k \in hits : \A other \in hits : k <= other

\* Series.fillna('') on a cell
fillna(cell) == IF IsNaN(cell) THEN PyStr(<<>>) ELSE cell

\* the merge is entered when either column exists
MergeEntered(frame) == pos_col(frame) # 0 \/ neg_col(frame) # 0

\* with one of the two columns missing, pos_vals or neg_vals is the str ''
\* and ''.astype(str) raises AttributeError
MergeRaises(frame) == MergeEntered(frame) /\ (pos_col(frame) = 0 \/ neg_col(frame) = 0)

\* (pos_vals.astype(str) + ' ' + neg_vals.astype(str)).str.strip() for row i
combined(frame, i) ==
    Strip(fillna(frame.data[i][pos_col(frame)]).s \o <<" ">>
          \o fillna(frame.data[i][neg_col(frame)]).s)

\* df_raw after lines 343-348: the codes column holds the old codes followed
\* by the combined key plays, or is added as the last column
MergedFrame(frame) ==
    LET ck == CodesColumn(frame)
    IN  IF ck # 0
        THEN [frame EXCEPT !.data = [i \in 1..Len(frame.data) |->
                 [frame.data[i] EXCEPT ![ck] =
                     PyStr(Strip(fillna(@).s \o <<" ">> \o combined(frame, i)))]]]
        ELSE [columns |-> Append(frame.columns, <<"c", "o", "d", "e", "s">>),
              data    |-> [i \in 1..Len(frame.data) |->
                              Append(frame.data[i], PyStr(combined(frame, i)))]]

\* compute_row(r): the dict it returns, or the exception that leaves it
compute_row(row) ==
    LET sv       == SnapsVal(row)
        pr       == parse_codes_to_points(codes_str(row))
        ma2      == Overridden(codes_str(row), pr.counts, "MA", Gated(sv, ma_in(row)))
        loafs2   == Overridden(codes_str(row), pr.counts, "L", Gated(sv, loafs_in(row)))
        kp       == ResolvedKeyplays(keyplays_in(row), pr.derived_keyplays)
        rt       == CoreRateValues(row, ma2, loafs2, kp)
        sc       == ScoreValue(rt)
    IN  IF pr.raised # "" THEN [raised |-> pr.raised, value |-> <<>>]
        ELSE IF ~CanAdd(rec_yards(row), rush_yards(row))
        THEN [raised |-> "TypeError", value |-> <<>>]
        ELSE [raised |-> "", value |-> ReturnedDict(rt, sc, letter(sc), pr)]

---------------------------------------------------------------------------
(* tools/run_week.py: locating the sheet and the steps of the week *)

\* no path: --csv absent or empty, no sheet located yet
NoPath == <<>>

\* needle in hay, for two strs
Contains(hay, needle) ==
    \E i \in 1..(Len(hay) - Len(needle) + 1) : SubSeq(hay, i, i + Len(needle) - 1) = needle

\* opp_raw.replace(' ', with)
RECURSIVE ReplaceSpaces(_, _)
ReplaceSpaces(cs, with) ==
    IF cs = <<>> THEN <<>>
    ELSE (IF Head(cs) = " " THEN with ELSE <<Head(cs)>>) \o ReplaceSpaces(Tail(cs), with)

\* the four file names tried first, lines 21-26
candidates(week, opp_raw) ==
    <<<<"W", "k">> \o week \o <<"_">> \o opp_raw \o <<".", "c", "s", "v">>,
      <<"W", "k">> \o week \o opp_raw \o <<".", "c", "s", "v">>,
      <<"W", "k">> \o week \o <<"_">> \o ReplaceSpaces(opp_raw, <<"_">>) \o <<".", "c", "s", "v">>,
      <<"W", "k">> \o week \o ReplaceSpaces(opp_raw, <<>>) \o <<".", "c", "s", "v">>>>

\* the files of the fallback search, lines 32-41: of csv_dir.glob('*.csv'),
\* those whose norm, ''.join(ch.lower() for ch in s if ch.isalnum()), holds
\* the week tag and the opponent's norm
matches(week, opponent, listing) ==
    LET normed(cs) == Lower(SelectSeq(cs, isalnum))
    IN  {name \in listing :
            /\ Len(name) >= 4
            /\ SubSeq(name, Len(name) - 3, Len(name)) = <<".", "c", "s", "v">>
            /\ Contains(normed(name), Lower(<<"w", "k">> \o week))
            /\ Contains(normed(name), normed(opponent))}

\* find_csv(week, opponent, explicit_path): SystemExit, or the paths it may
\* return. glob yields the files in the order the directory gives them, so
\* with several matches the first one is any of them; pref is the matches
\* with an underscore between week and opponent, line 46.
find_csv(args) ==
    LET NotLocated     == [raised |-> "SystemExit", paths |-> {}]
        Located(names) == [raised |-> "", paths |-> {<<"c", "s", "v", "/">> \o name : name \in names}]
        cands == candidates(args.week, args.opponent)
        hits  == {k \in 1..Len(cands) : cands[k] \in args.listing}
        found == matches(args.week, args.opponent, args.listing)
        pref  == {name \in found : Contains(Lower(name), <<"w", "k">> \o args.week \o <<"_">>)}
    IN  IF args.csv # NoPath
        THEN IF args.csv \in args.paths
             THEN [raised |-> "", paths |-> {args.csv}]
             ELSE NotLocated
        ELSE IF ~args.has_dir THEN NotLocated
        ELSE IF hits # {}
             THEN Located({cands[CHOOSE k \in hits : \A other \in hits : k <= other]})
        ELSE IF Cardinality(found) = 1 THEN Located(found)
        ELSE IF Cardinality(found) > 1
             THEN IF pref # {} THEN Located(pref) ELSE Located(found)
        ELSE NotLocated

\* the scripts main() runs with subprocess.run(..., check=True), in the
\* order of the calls, lines 95-186
STEPS == <<"tools/prep_wk7.py", "film_grade.py", "tools/make_pdfs.py",
           "tools/make_group_film_pdf.py", "tools/make_dashboard.py",
           "tools/make_dashboard_html.py", "tools/make_snapshot_html.py",
           "tools/make_season_dashboard_html.py", "tools/make_site_index.py",
           "tools/make_season_selector.py">>

---------------------------------------------------------------------------
(* Inputs: the rows and annotation strings the checks range over *)

\* bounds of the annotation strings typed in SpecParse
MaxFragments == 3

\* pieces of annotation text: codes, yardage tokens, noise and delimiters
Fragments == {<<"M", "A">>, <<"L">>, <<"t", "d">>, <<"E", "R">>,
              <<"C", "+", "1", "2">>, <<"r", "+", "-", "3">>, <<"C", "-", "5">>, <<"5">>, <<"x">>,
              <<" ">>, <<",">>, <<";">>, <<"(">>, <<")">>}

\* cells a codes column starts from: an empty cell (NaN), a number, the
\* empty string, and annotations of the kind the sheets hold
SeedAnnotations == {NaN, PyInt(7), PyStr(<<>>),
                    PyStr(<<"T", "D", " ", "E", "R", " ", "C", "+", "1", "2", " ", "M", "A">>),
                    PyStr(<<"C", "+", "-", "5">>)}

\* bound of the edits made to a sheet cell in SpecCells
MaxEdits == 2

\* codes cells as the sheets hold them: the three layouts the parser's
\* docstring names, cells in lower and mixed case, a cell of codes that are
\* not key plays, the empty cell
SheetCells == {PyStr(<<"(", "E", "R", ")", " ", "(", "C", "+", "1", "2", ")", " ", "(", "F", "D", ")">>),
               PyStr(<<"E", "R", ";", " ", "C", "+", "1", "2", ";", " ", "F", "D">>),
               PyStr(<<"E", "R", " ", "C", "+", "1", "2", " ", "F", "D">>),
               PyStr(<<"T", "D", " ", "E", "R", " ", "C", "+", "1", "2", " ", "M", "A">>),
               PyStr(<<"h", " ", "W", " ", "B", "R", " ", "N", "F", "S", " ", "D", "P">>),
               PyStr(<<"t", "d", " ", "c", "+", "1", "2">>),
               PyStr(<<>>)}

\* the end-to-end scenario row: 60 snaps, 8 targets, 5 catches for 58 yards
BaseRow == [player             |-> PyStr(<<"A", "l">>),
            week               |-> PyInt(7),
            snaps              |-> PyInt(60),
            targets            |-> PyInt(8),
            catches            |-> PyInt(5),
            rec_yards          |-> PyInt(58),
            rush_yards         |-> PyInt(23),
            touchdowns         |-> PyInt(0),
            drops              |-> PyInt(1),
            missed_assignments |-> PyInt(0),
            loafs              |-> PyInt(0)]

\* a column the sheet may or may not have: Absent leaves it out of the row
Absent == [t |-> "absent", v |-> 0, s |-> <<>>]
WithColumn(row, key, value) == IF value = Absent THEN row ELSE (key :> value) @@ row

CodesInputs == {Absent, NaN, PyStr(<<>>), PyStr(<<" ", " ">>),
                PyStr(<<"E", "R", " ", "F", "D", " ", "C", "+", "1", "2">>),
                PyStr(<<"M", "A", " ", "L", " ", "L">>),
                PyStr(<<"(", "m", "a", ")", " ", "x", "9">>),
                PyStr(<<"T", "D", ",", " ", "E", "R", ";", " ", "P">>),
                PyStr(<<"x", "9">>)}

KeyPlaysInputs == {Absent, PyInt(0), PyInt(-1), PyInt(3)}

\* every combination of the values that steer the discipline counters, the
\* key plays and the per-30 rates
CoreRows ==
    { WithColumn(WithColumn(
          [BaseRow EXCEPT !.snaps = PyInt(sn), !.targets = PyInt(tg),
                          !.missed_assignments = PyInt(m), !.loafs = PyInt(l)],
          "key_plays", kp), "codes", cd) :
        sn \in {-3, 0, 1, 60}, tg \in {0, 8}, m \in {0, 2}, l \in {0, 1},
        kp \in KeyPlaysInputs, cd \in CodesInputs }

CounterColumns == {"snaps", "targets", "catches", "rec_yards", "rush_yards",
                   "touchdowns", "drops", "missed_assignments", "loafs"}

\* a negative count, a large count, an empty cell, text, and a number that
\* pandas left as text
OddValues == {PyInt(-2), PyInt(8), NaN, PyStr(<<"n", "/", "a">>), PyStr(<<"5">>)}

VariantBases ==
    { WithColumn([BaseRow EXCEPT !.snaps = PyInt(sn), !.targets = PyInt(tg)], "codes", cd) :
        sn \in {0, 60}, tg \in {0, 8}, cd \in {Absent, PyStr(<<"E", "R", " ", "F", "D", " ", "C", "+", "1", "2">>)} }

\* one counter of a row replaced by an odd value
VariantRows ==
    { [b EXCEPT ![col] = val] : b \in VariantBases, col \in CounterColumns, val \in OddValues }

\* both yardage columns read as text, and key_plays cells that are not ints
TextRows ==
    { [b EXCEPT !.rec_yards = PyStr(x), !.rush_yards = PyStr(y)] :
        b \in VariantBases, x \in {<<"5", "8">>, <<"n", "/", "a">>}, y \in {<<"2", "3">>} }
    \cup
    { WithColumn(b, "key_plays", kp) :
        b \in VariantBases, kp \in {NaN, PyStr(<<"3">>), PyFloat(5 * (Scale \div 2))} }

\* rows whose score falls exactly on 60, 70, 80 and 90
BoundaryRows ==
    { WithColumn([BaseRow EXCEPT !.snaps = PyInt(30), !.targets = PyInt(b[1]),
                                 !.catches = PyInt(b[2]), !.rec_yards = PyInt(0),
                                 !.rush_yards = PyInt(0), !.touchdowns = PyInt(b[3]),
                                 !.drops = PyInt(0), !.missed_assignments = PyInt(b[4]),
                                 !.loafs = PyInt(b[5])],
                 "key_plays", PyInt(b[6])) :
        b \in { <<0, 0, 0, 1, 1, 0>>,     \* 73 - 9 - 4
                <<0, 0, 0, 1, 0, 1>>,     \* 73 + 6 - 9
                <<8, 0, 1, 1, 0, 0>>,     \* 73 + 12 + 4 - 9
                <<8, 8, 0, 0, 2, 1>> } }  \* 73 + 15 + 6 + 4 - 8

Rows == CoreRows \cup VariantRows \cup TextRows \cup BoundaryRows

\* bound of the batches main() is run on
MaxRows == 3

\* the required columns under their canonical labels, and one row of cells
CanonicalLabels == <<<<"p", "l", "a", "y", "e", "r">>, <<"w", "e", "e", "k">>, <<"s", "n", "a", "p", "s">>, <<"t", "a", "r", "g", "e", "t", "s">>, <<"c", "a", "t", "c", "h", "e", "s">>,
                     <<"r", "e", "c", "_", "y", "a", "r", "d", "s">>, <<"r", "u", "s", "h", "_", "y", "a", "r", "d", "s">>, <<"t", "o", "u", "c", "h", "d", "o", "w", "n", "s">>, <<"d", "r", "o", "p", "s">>,
                     <<"m", "i", "s", "s", "e", "d", "_", "a", "s", "s", "i", "g", "n", "m", "e", "n", "t", "s">>, <<"l", "o", "a", "f", "s">>>>

BaseCells == <<PyStr(<<"A", "l">>), PyInt(7), PyInt(60), PyInt(8), PyInt(5), PyInt(58),
               PyInt(23), PyInt(0), PyInt(1), PyInt(0), PyInt(0)>>

\* other spellings of a required column's label, by position
Respellings == {<<1, <<" ", "P", "l", "a", "y", "e", "r", " ">>>>, <<3, <<"_", "S", "n", "a", "p", "s", "_">>>>, <<9, <<"D", "r", "o", "p", "s", "!">>>>,
                <<6, <<"R", "E", "C", "_", "Y", "A", "R", "D", "S">>>>, <<6, <<"r", "e", "c", "_", "_", "y", "a", "r", "d", "s">>>>, <<6, <<"R", "e", "c", " ", "Y", "a", "r", "d", "s">>>>,
                <<6, <<"r", "e", "c", " ", "y", "a", "r", "d", "s">>>>, <<10, <<"M", "i", "s", "s", "e", "d", "_", "A", "s", "s", "i", "g", "n", "m", "e", "n", "t", "s">>>>,
                <<10, <<"M", "i", "s", "s", "e", "d", " ", "A", "s", "s", "i", "g", "n", "m", "e", "n", "t", "s">>>>}

\* sets of required columns a sheet may lack
Droppings == {{1}, {1, 11}, {6}}

\* a sequence without the entries at the given positions
RECURSIVE DropAt(_, _)
DropAt(seq, positions) ==
    IF seq = <<>> THEN <<>>
    ELSE DropAt(SubSeq(seq, 1, Len(seq) - 1), positions)
         \o (IF Len(seq) \in positions THEN <<>> ELSE <<seq[Len(seq)]>>)

\* one-row sheets with a respelled or a missing required column
HeaderFrames ==
    {[columns |-> [CanonicalLabels EXCEPT ![sp[1]] = sp[2]], data |-> <<BaseCells>>] :
        sp \in Respellings}
    \cup {[columns |-> DropAt(CanonicalLabels, d), data |-> <<DropAt(BaseCells, d)>>] :
        d \in Droppings}

\* an optional column: nothing when Absent, else its label and its cell
OptionalLabel(label, cell) == IF cell = Absent THEN <<>> ELSE <<label>>
OptionalCell(cell) == IF cell = Absent THEN <<>> ELSE <<cell>>

\* one-row sheets with every combination of a codes column and the two
\* key-play columns, each absent, empty or filled
OptionalFrames ==
    {[columns |-> CanonicalLabels \o OptionalLabel(<<"c", "o", "d", "e", "s">>, c)
                  \o OptionalLabel(<<"K", "e", "y", " ", "P", "l", "a", "y", " ", "+", "+">>, p) \o OptionalLabel(<<" ", "k", "e", "y", " ", "p", "l", "a", "y", " ", "-", "-", " ">>, n),
      data    |-> <<BaseCells \o OptionalCell(c) \o OptionalCell(p) \o OptionalCell(n)>>] :
        c \in {Absent, NaN, PyStr(<<"F", "D">>)},
        p \in {Absent, NaN, PyStr(<<"T", "D", " ", "E", "R">>)},
        n \in {Absent, NaN, PyStr(<<"M", "A">>)}}

\* the rows of the larger batches: the base row with these discipline
\* counters, receiving yards and codes
BatchRow(disc, rec, codes) ==
    [BaseCells EXCEPT ![6] = rec, ![10] = PyInt(disc[1]), ![11] = PyInt(disc[2])] \o <<codes>>

BatchRows ==
    {BatchRow(disc, PyInt(58), codes) :
        disc \in {<<0, 0>>, <<2, 1>>},
        codes \in {NaN, PyStr(<<" ", " ">>), PyStr(<<"M", "A", " ", "L", " ", "L">>)}}
    \cup {BatchRow(<<0, 0>>, rec, PyStr(<<"M", "A", " ", "L", " ", "L">>)) : rec \in {NaN, PyStr(<<"n", "/", "a">>), PyStr(<<"5", "8">>)}}

\* pandas gives a column one dtype: the receiving yards of a sheet are all
\* whole numbers, or all text and empty cells (NaN) once one cell is text
OneDtype(rows) == \/ \A i \in 1..Len(rows) : rows[i][6].t = "int"
                  \/ \A i \in 1..Len(rows) : rows[i][6].t \in {"str", "nan"}

BatchFrames ==
    {[columns |-> Append(CanonicalLabels, <<"c", "o", "d", "e", "s">>), data |-> rows] :
        rows \in {b \in UNION {[1..n -> BatchRows] : n \in 1..MaxRows} : OneDtype(b)}}

\* one-row sheets with a codes and a key_plays column
KeyPlaysFrames ==
    {[columns |-> CanonicalLabels \o <<<<"c", "o", "d", "e", "s">>, <<"k", "e", "y", "_", "p", "l", "a", "y", "s">>>>,
      data    |-> <<BaseCells \o <<PyStr(<<"T", "D", ",", " ", "E", "R", ";", " ", "C", "+", "1", "2", " ", "d", "p">>), kp>>>>] :
        kp \in {PyInt(0), PyInt(3)}}

Sheets == HeaderFrames \cup OptionalFrames \cup BatchFrames \cup KeyPlaysFrames

\* run_week's arguments together with the files there are: week 8, two
\* opponents, --csv absent, naming a file that exists or one that does not,
\* no csv/ directory or one with any of six files
WeekInputs ==
    LET CsvFiles == {<<"W", "k", "8", "_", "K", "v", "i", "l", "l", "e", ".", "c", "s", "v">>, <<"W", "k", "8", "K", "v", "i", "l", "l", "e", ".", "c", "s", "v">>, <<"W", "k", "8", "_", "S", "t", "_", "J", "o", "h", "n", "s", ".", "c", "s", "v">>,
                     <<"w", "e", "e", "k", "-", "w", "k", "8", "-", "K", "V", "I", "L", "L", "E", ".", "c", "s", "v">>, <<"W", "K", "8", "_", "k", "v", "i", "l", "l", "e", "_", "v", "2", ".", "c", "s", "v">>, <<"W", "k", "7", "_", "K", "v", "i", "l", "l", "e", ".", "c", "s", "v">>}
    IN  {[week |-> <<"8">>, opponent |-> opp, csv |-> explicit, paths |-> paths,
          has_dir |-> TRUE, listing |-> listing] :
            opp \in {<<"K", "v", "i", "l", "l", "e">>, <<"S", "t", " ", "J", "o", "h", "n", "s">>},
            explicit \in {NoPath, <<"i", "n", "/", "w", "k", "8", ".", "c", "s", "v">>},
            paths \in {{}, {<<"i", "n", "/", "w", "k", "8", ".", "c", "s", "v">>}},
            listing \in SUBSET CsvFiles}
        \cup
        {[week |-> <<"8">>, opponent |-> <<"K", "v", "i", "l", "l", "e">>, csv |-> explicit, paths |-> {},
          has_dir |-> FALSE, listing |-> {}] : explicit \in {NoPath, <<"i", "n", "/", "w", "k", "8", ".", "c", "s", "v">>}}

---------------------------------------------------------------------------
(* main()'s row loop: df.apply(compute_row, axis=1), one step at a time *)

NoRow == <<>>

engineVars == <<pc, r, ma, loafs, snaps_val, parsed, keyplays, rate, score, grade, out, exc>>
parseVars  == <<annotation, typed, agg>>
mainVars   == <<df_raw, df, calc_rows, out_df, files, message>>
weekVars   == <<week_args, csv_path, started, returncodes>>

\* run_week is not running
NoArgs == [week |-> <<>>, opponent |-> <<>>, csv |-> NoPath, paths |-> {},
           has_dir |-> FALSE, listing |-> {}]
WeekIdle ==
    /\ week_args = NoArgs
    /\ csv_path = NoPath
    /\ started = <<>>
    /\ returncodes = <<>>

Init ==
    /\ pc = "idle"
    /\ r = NoRow
    /\ ma = Unset
    /\ loafs = Unset
    /\ snaps_val = 0
    /\ parsed = ZeroAggregates
    /\ keyplays = Unset
    /\ rate = NoRow
    /\ score = Unset
    /\ grade = ""
    /\ out = NoRow
    /\ exc = ""
    /\ annotation = PyStr(<<>>)
    /\ typed = 0
    /\ agg = ZeroAggregates
    /\ df_raw = NoFrame
    /\ df = NoFrame
    /\ calc_rows = <<>>
    /\ out_df = <<>>
    /\ files = {}
    /\ message = <<>>
    /\ WeekIdle

\* compute_row is entered with the next row; lines 153-163 read its locals
ReadRow ==
    /\ pc = "idle"
    /\ \E row \in Rows :
        /\ r' = row
        /\ ma' = ma_in(row)
        /\ loafs' = loafs_in(row)
    /\ pc' = "gate"
    /\ UNCHANGED <<snaps_val, parsed, keyplays, rate, score, grade, out, exc>>
    /\ UNCHANGED parseVars
    /\ UNCHANGED mainVars
    /\ UNCHANGED weekVars

\* lines 165-172: no discipline stats for a row without snaps
SnapGate ==
    /\ pc = "gate"
    /\ snaps_val' = SnapsVal(r)
    /\ ma' = Gated(SnapsVal(r), ma)
    /\ loafs' = Gated(SnapsVal(r), loafs)
    /\ pc' = "parse"
    /\ UNCHANGED <<r, parsed, keyplays, rate, score, grade, out, exc>>
    /\ UNCHANGED parseVars
    /\ UNCHANGED mainVars
    /\ UNCHANGED weekVars

\* line 175
ParseCodes ==
    /\ pc = "parse"
    /\ parsed' = parse_codes_to_points(codes_str(r))
    /\ pc' = IF parsed'.raised = "" THEN "override" ELSE "raised"
    /\ exc' = parsed'.raised
    /\ UNCHANGED <<r, ma, loafs, snaps_val, keyplays, rate, score, grade, out>>
    /\ UNCHANGED parseVars
    /\ UNCHANGED mainVars
    /\ UNCHANGED weekVars

\* lines 176-182: the codes, when given, decide the discipline tallies
OverrideDiscipline ==
    /\ pc = "override"
    /\ ma' = Overridden(codes_str(r), parsed.counts, "MA", ma)
    /\ loafs' = Overridden(codes_str(r), parsed.counts, "L", loafs)
    /\ pc' = "resolve"
    /\ UNCHANGED <<r, snaps_val, parsed, keyplays, rate, score, grade, out, exc>>
    /\ UNCHANGED parseVars
    /\ UNCHANGED mainVars
    /\ UNCHANGED weekVars

\* lines 184-185
ResolveKeyplays ==
    /\ pc = "resolve"
    /\ keyplays' = ResolvedKeyplays(keyplays_in(r), parsed.derived_keyplays)
    /\ pc' = "rates"
    /\ UNCHANGED <<r, ma, loafs, snaps_val, parsed, rate, score, grade, out, exc>>
    /\ UNCHANGED parseVars
    /\ UNCHANGED mainVars
    /\ UNCHANGED weekVars

\* mutant: the rates are taken from the raw discipline columns, as they
\* were before the snap-gating and the override
CoreRates_RawCounters ==
    /\ pc = "rates"
    /\ IF CanAdd(rec_yards(r), rush_yards(r))
       THEN /\ rate' = CoreRateValues(r, ma_in(r), loafs_in(r), keyplays)
            /\ pc' = "score"
            /\ exc' = exc
       ELSE /\ rate' = rate
            /\ pc' = "raised"
            /\ exc' = "TypeError"
    /\ UNCHANGED <<r, ma, loafs, snaps_val, parsed, keyplays, score, grade, out>>
    /\ UNCHANGED parseVars
    /\ UNCHANGED mainVars
    /\ UNCHANGED weekVars

\* lines 187-195; rec_yards + rush_yards is evaluated outside any try
CoreRates ==
    /\ pc = "rates"
    /\ IF CanAdd(rec_yards(r), rush_yards(r))
       THEN /\ rate' = CoreRateValues(r, ma, loafs, keyplays)
            /\ pc' = "score"
            /\ exc' = exc
       ELSE /\ rate' = rate
            /\ pc' = "raised"
            /\ exc' = "TypeError"
    /\ UNCHANGED <<r, ma, loafs, snaps_val, parsed, keyplays, score, grade, out>>
    /\ UNCHANGED parseVars
    /\ UNCHANGED mainVars
    /\ UNCHANGED weekVars

\* lines 197-221
CompositeScore ==
    /\ pc = "score"
    /\ score' = ScoreValue(rate)
    /\ pc' = "letter"
    /\ UNCHANGED <<r, ma, loafs, snaps_val, parsed, keyplays, rate, grade, out, exc>>
    /\ UNCHANGED parseVars
    /\ UNCHANGED mainVars
    /\ UNCHANGED weekVars

\* line 222
LetterGrade ==
    /\ pc = "letter"
    /\ grade' = letter(score)
    /\ pc' = "return"
    /\ UNCHANGED <<r, ma, loafs, snaps_val, parsed, keyplays, rate, score, out, exc>>
    /\ UNCHANGED parseVars
    /\ UNCHANGED mainVars
    /\ UNCHANGED weekVars

\* lines 224-242 and main's pd.concat([df, calc_rows], axis=1): the output
\* row is the input row followed by the returned columns
ReturnRow ==
    /\ pc = "return"
    /\ out' = r @@ ReturnedDict(rate, score, grade, parsed)
    /\ pc' = "done"
    /\ UNCHANGED <<r, ma, loafs, snaps_val, parsed, keyplays, rate, score, grade, exc>>
    /\ UNCHANGED parseVars
    /\ UNCHANGED mainVars
    /\ UNCHANGED weekVars

\* df.apply moves on: compute_row's locals are gone, the next row follows
NextRow ==
    /\ pc = "done"
    /\ pc' = "idle"
    /\ r' = NoRow
    /\ ma' = Unset
    /\ loafs' = Unset
    /\ snaps_val' = 0
    /\ parsed' = ZeroAggregates
    /\ keyplays' = Unset
    /\ rate' = NoRow
    /\ score' = Unset
    /\ grade' = ""
    /\ out' = NoRow
    /\ UNCHANGED exc
    /\ UNCHANGED parseVars
    /\ UNCHANGED mainVars
    /\ UNCHANGED weekVars

Next ==
    \/ ReadRow
    \/ SnapGate
    \/ ParseCodes
    \/ OverrideDiscipline
    \/ ResolveKeyplays
    \/ CoreRates
    \/ CompositeScore
    \/ LetterGrade
    \/ ReturnRow
    \/ NextRow

Spec == Init /\ [][Next]_vars

---------------------------------------------------------------------------
(* The parser on its own: a codes cell is typed, then parsed *)

InitParse ==
    /\ pc = "typing"
    /\ annotation \in SeedAnnotations
    /\ typed = 0
    /\ agg = ZeroAggregates
    /\ r = NoRow
    /\ ma = Unset
    /\ loafs = Unset
    /\ snaps_val = 0
    /\ parsed = ZeroAggregates
    /\ keyplays = Unset
    /\ rate = NoRow
    /\ score = Unset
    /\ grade = ""
    /\ out = NoRow
    /\ exc = ""
    /\ df_raw = NoFrame
    /\ df = NoFrame
    /\ calc_rows = <<>>
    /\ out_df = <<>>
    /\ files = {}
    /\ message = <<>>
    /\ WeekIdle

\* more text is appended to the cell; text typed into a cell that held no
\* string replaces it
TypeFragment ==
    /\ pc = "typing"
    /\ typed < MaxFragments
    /\ \E frag \in Fragments :
        annotation' = PyStr((IF IsStr(annotation) THEN annotation.s ELSE <<>>) \o frag)
    /\ typed' = typed + 1
    /\ UNCHANGED <<pc, agg>>
    /\ UNCHANGED <<r, ma, loafs, snaps_val, parsed, keyplays, rate, score, grade, out, exc>>
    /\ UNCHANGED mainVars
    /\ UNCHANGED weekVars

\* parse_codes_to_points(annotation) returns
ParseAnnotation ==
    /\ pc = "typing"
    /\ agg' = parse_codes_to_points(annotation)
    /\ pc' = "parsed"
    /\ UNCHANGED <<annotation, typed>>
    /\ UNCHANGED <<r, ma, loafs, snaps_val, parsed, keyplays, rate, score, grade, out, exc>>
    /\ UNCHANGED mainVars
    /\ UNCHANGED weekVars

NextParse ==
    \/ TypeFragment
    \/ ParseAnnotation

SpecParse == InitParse /\ [][NextParse]_vars

---------------------------------------------------------------------------
(* The parser on sheet cells: a cell of a sheet is edited, then parsed *)

InitCells ==
    /\ pc = "typing"
    /\ annotation \in SheetCells
    /\ typed = 0
    /\ agg = ZeroAggregates
    /\ r = NoRow
    /\ ma = Unset
    /\ loafs = Unset
    /\ snaps_val = 0
    /\ parsed = ZeroAggregates
    /\ keyplays = Unset
    /\ rate = NoRow
    /\ score = Unset
    /\ grade = ""
    /\ out = NoRow
    /\ exc = ""
    /\ df_raw = NoFrame
    /\ df = NoFrame
    /\ calc_rows = <<>>
    /\ out_df = <<>>
    /\ files = {}
    /\ message = <<>>
    /\ WeekIdle

\* more text is appended to the cell
EditCell ==
    /\ pc = "typing"
    /\ typed < MaxEdits
    /\ \E frag \in Fragments : annotation' = PyStr(annotation.s \o frag)
    /\ typed' = typed + 1
    /\ UNCHANGED <<pc, agg>>
    /\ UNCHANGED <<r, ma, loafs, snaps_val, parsed, keyplays, rate, score, grade, out, exc>>
    /\ UNCHANGED mainVars
    /\ UNCHANGED weekVars

NextCells ==
    \/ EditCell
    \/ ParseAnnotation

SpecCells == InitCells /\ [][NextCells]_vars

---------------------------------------------------------------------------
(* main(): one run over a sheet, from the key-play merge to the reports *)

callVars == <<r, ma, loafs, snaps_val, keyplays, rate, score, grade, out>>

\* df_raw = pd.read_csv(args.csv) has returned
InitMain ==
    /\ pc = "merge"
    /\ df_raw \in Sheets
    /\ df = NoFrame
    /\ calc_rows = <<>>
    /\ out_df = <<>>
    /\ files = {}
    /\ message = <<>>
    /\ r = NoRow
    /\ ma = Unset
    /\ loafs = Unset
    /\ snaps_val = 0
    /\ parsed = ZeroAggregates
    /\ keyplays = Unset
    /\ rate = NoRow
    /\ score = Unset
    /\ grade = ""
    /\ out = NoRow
    /\ exc = ""
    /\ annotation = PyStr(<<>>)
    /\ typed = 0
    /\ agg = ZeroAggregates
    /\ WeekIdle

\* lines 337-348: the key-play columns are merged into codes
MergeKeyPlays ==
    /\ pc = "merge"
    /\ IF MergeRaises(df_raw)
       THEN /\ pc' = "raised"
            /\ exc' = "AttributeError"
            /\ df_raw' = df_raw
       ELSE /\ pc' = "normalize"
            /\ exc' = exc
            /\ df_raw' = IF MergeEntered(df_raw) THEN MergedFrame(df_raw) ELSE df_raw
    /\ UNCHANGED <<df, calc_rows, out_df, files, message, parsed>>
    /\ UNCHANGED callVars
    /\ UNCHANGED parseVars
    /\ UNCHANGED weekVars

\* line 351
NormalizeCols ==
    /\ pc = "normalize"
    /\ df' = normalize_cols(df_raw)
    /\ pc' = "ensure"
    /\ UNCHANGED <<df_raw, calc_rows, out_df, files, message, parsed, exc>>
    /\ UNCHANGED callVars
    /\ UNCHANGED parseVars
    /\ UNCHANGED weekVars

\* mutant: the sheet is graded whatever columns it has
EnsureColumns_Lenient ==
    /\ pc = "ensure"
    /\ pc' = "apply"
    /\ UNCHANGED <<df_raw, df, calc_rows, out_df, files, parsed, exc, message>>
    /\ UNCHANGED callVars
    /\ UNCHANGED parseVars
    /\ UNCHANGED weekVars

\* line 354: SystemExit names the missing columns
EnsureColumns ==
    /\ pc = "ensure"
    /\ IF MissingColumns(df) # <<>>
       THEN /\ pc' = "exited"
            /\ exc' = "SystemExit"
            /\ message' = MissingColumns(df)
       ELSE /\ pc' = "apply"
            /\ exc' = exc
            /\ message' = message
    /\ UNCHANGED <<df_raw, df, calc_rows, out_df, files, parsed>>
    /\ UNCHANGED callVars
    /\ UNCHANGED parseVars
    /\ UNCHANGED weekVars

\* line 357: df.apply calls compute_row on the next row; an exception ends
\* the run
ApplyRow ==
    /\ pc = "apply"
    /\ Len(calc_rows) < Len(df.data)
    /\ LET row    == RowOf(df, Len(calc_rows) + 1)
           result == compute_row(row)
       IN  /\ parsed' = parse_codes_to_points(codes_str(row))
           /\ IF result.raised # ""
              THEN /\ pc' = "raised"
                   /\ exc' = result.raised
                   /\ calc_rows' = calc_rows
              ELSE /\ pc' = pc
                   /\ exc' = exc
                   /\ calc_rows' = Append(calc_rows, result.value)
    /\ UNCHANGED <<df_raw, df, out_df, files, message>>
    /\ UNCHANGED callVars
    /\ UNCHANGED parseVars
    /\ UNCHANGED weekVars

\* mutant: the output holds the computed columns only
Concat_ComputedOnly ==
    /\ pc = "apply"
    /\ Len(calc_rows) = Len(df.data)
    /\ out_df' = calc_rows
    /\ pc' = "mkdir"
    /\ UNCHANGED <<df_raw, df, calc_rows, files, message, parsed, exc>>
    /\ UNCHANGED callVars
    /\ UNCHANGED parseVars
    /\ UNCHANGED weekVars

\* line 358: out = pd.concat([df, calc_rows], axis=1)
Concat ==
    /\ pc = "apply"
    /\ Len(calc_rows) = Len(df.data)
    /\ out_df' = [i \in 1..Len(df.data) |-> RowOf(df, i) @@ calc_rows[i]]
    /\ pc' = "mkdir"
    /\ UNCHANGED <<df_raw, df, calc_rows, files, message, parsed, exc>>
    /\ UNCHANGED callVars
    /\ UNCHANGED parseVars
    /\ UNCHANGED weekVars

\* line 374: out_dir.mkdir(parents=True, exist_ok=True)
MakeOutDir ==
    /\ pc = "mkdir"
    /\ files' = files \cup {"out_dir"}
    /\ pc' = "to_csv"
    /\ UNCHANGED <<df_raw, df, calc_rows, out_df, message, parsed, exc>>
    /\ UNCHANGED callVars
    /\ UNCHANGED parseVars
    /\ UNCHANGED weekVars

\* line 380: out.to_csv(out_path, index=False)
WriteResults ==
    /\ pc = "to_csv"
    /\ files' = files \cup {"results.csv"}
    /\ pc' = "summary"
    /\ UNCHANGED <<df_raw, df, calc_rows, out_df, message, parsed, exc>>
    /\ UNCHANGED callVars
    /\ UNCHANGED parseVars
    /\ UNCHANGED weekVars

\* lines 383-397: summary.to_csv(summary_out, index=False)
WriteSummary ==
    /\ pc = "summary"
    /\ files' = files \cup {"results_summary.csv"}
    /\ pc' = "reports"
    /\ UNCHANGED <<df_raw, df, calc_rows, out_df, message, parsed, exc>>
    /\ UNCHANGED callVars
    /\ UNCHANGED parseVars
    /\ UNCHANGED weekVars

\* line 400: make_reports(out, reports_dir)
MakeReports ==
    /\ pc = "reports"
    /\ files' = files \cup {"reports"}
    /\ pc' = "finished"
    /\ UNCHANGED <<df_raw, df, calc_rows, out_df, message, parsed, exc>>
    /\ UNCHANGED callVars
    /\ UNCHANGED parseVars
    /\ UNCHANGED weekVars

NextMain ==
    \/ MergeKeyPlays
    \/ NormalizeCols
    \/ EnsureColumns
    \/ ApplyRow
    \/ Concat
    \/ MakeOutDir
    \/ WriteResults
    \/ WriteSummary
    \/ MakeReports

SpecMain == InitMain /\ [][NextMain]_vars

---------------------------------------------------------------------------
(* run_week's main(): the sheet is located, then the scripts run in turn *)

otherVars == <<r, ma, loafs, snaps_val, parsed, keyplays, rate, score, grade, out,
               annotation, typed, agg, df_raw, df, calc_rows, out_df, files, message>>

InitWeek ==
    /\ pc = "find_csv"
    /\ week_args \in WeekInputs
    /\ csv_path = NoPath
    /\ started = <<>>
    /\ returncodes = <<>>
    /\ exc = ""
    /\ r = NoRow
    /\ ma = Unset
    /\ loafs = Unset
    /\ snaps_val = 0
    /\ parsed = ZeroAggregates
    /\ keyplays = Unset
    /\ rate = NoRow
    /\ score = Unset
    /\ grade = ""
    /\ out = NoRow
    /\ annotation = PyStr(<<>>)
    /\ typed = 0
    /\ agg = ZeroAggregates
    /\ df_raw = NoFrame
    /\ df = NoFrame
    /\ calc_rows = <<>>
    /\ out_df = <<>>
    /\ files = {}
    /\ message = <<>>

\* lines 77-92: find_csv returns a path or ends the run with SystemExit
FindCsv ==
    /\ pc = "find_csv"
    /\ LET found == find_csv(week_args)
       IN  IF found.raised # ""
           THEN /\ pc' = "exited"
                /\ exc' = found.raised
                /\ csv_path' = csv_path
           ELSE /\ pc' = "run"
                /\ exc' = exc
                /\ csv_path' \in found.paths
    /\ UNCHANGED <<week_args, started, returncodes>>
    /\ UNCHANGED otherVars

\* subprocess.run starts the next script
StartStep ==
    /\ pc = "run"
    /\ Len(started) < Len(STEPS)
    /\ started' = Append(started, STEPS[Len(started) + 1])
    /\ pc' = "wait"
    /\ UNCHANGED <<week_args, csv_path, returncodes, exc>>
    /\ UNCHANGED otherVars

\* mutant: the exit code is not looked at (check=False)
StepExits_Unchecked ==
    /\ pc = "wait"
    /\ \E code \in {0, 1, 2} : returncodes' = Append(returncodes, code)
    /\ pc' = "run"
    /\ UNCHANGED <<week_args, csv_path, started, exc>>
    /\ UNCHANGED otherVars

\* the script exits and subprocess.run returns; check=True raises
\* CalledProcessError for an exit code other than 0
StepExits ==
    /\ pc = "wait"
    /\ \E code \in {0, 1, 2} :
          /\ returncodes' = Append(returncodes, code)
          /\ IF code # 0
             THEN pc' = "raised" /\ exc' = "CalledProcessError"
             ELSE pc' = "run" /\ exc' = exc
    /\ UNCHANGED <<week_args, csv_path, started>>
    /\ UNCHANGED otherVars

\* main() returns after the last script
FinishWeek ==
    /\ pc = "run"
    /\ Len(started) = Len(STEPS)
    /\ pc' = "finished"
    /\ UNCHANGED <<week_args, csv_path, started, returncodes, exc>>
    /\ UNCHANGED otherVars

NextWeek ==
    \/ FindCsv
    \/ StartStep
    \/ StepExits
    \/ FinishWeek

SpecWeek == InitWeek /\ [][NextWeek]_vars

---------------------------------------------------------------------------
(* Properties of the grading engine, checked under Spec *)

\* a value is the float x
IsFloat(x) == x.t = "float"

\* the row has a column holding the integer n
HasInt(row, key, n) == key \in DOMAIN row /\ row[key] = PyInt(n)

\* the row has a codes column holding the text cs
HasCodes(row, cs) == "codes" \in DOMAIN row /\ row["codes"] = PyStr(cs)

\* C1: for every row the engine grades, whatever its counters, key_plays
\* and codes, the score it computes and emits is a number with
\* 0.0 <= score <= 100.0.
C1_ClampInvariant ==
    /\ pc \in {"letter", "return", "done"} =>
          /\ IsFloat(score)
          /\ 0 <= score.v
          /\ score.v <= 100 * Scale
    /\ pc = "done" => out["score"] = score

\* a row whose loafs alone cost 120 points was graded 0.0
C1_Witness ==
    /\ pc = "done"
    /\ out["score"] = Dec(0, 0)
    /\ IsFloat(out["loafs_per30"])
    /\ out["loafs_per30"].v >= 30 * Scale

\* C2: in every output row the grade is the letter of the score: A from 90,
\* B from 80, C from 70, D from 60, F below, each band including its lower
\* bound.
C2_GradeMatchesScore ==
    pc = "done" =>
        /\ IsFloat(out["score"])
        /\ out["grade"] = PyStr(<<IF out["score"].v >= 90 * Scale THEN "A"
                                  ELSE IF out["score"].v >= 80 * Scale THEN "B"
                                  ELSE IF out["score"].v >= 70 * Scale THEN "C"
                                  ELSE IF out["score"].v >= 60 * Scale THEN "D"
                                  ELSE "F">>)

\* a row scoring exactly 80.0 was graded B
C2_Witness ==
    /\ pc = "done"
    /\ out["score"] = Dec(80, 0)
    /\ out["grade"] = PyStr(<<"B">>)

\* the end-to-end scenario: 60 snaps, 8 targets, 5 catches, 58 + 23 yards,
\* no touchdown, 1 drop, no discipline entries, codes "ER FD C+12", no
\* key_plays column
IsScenario(row) ==
    /\ HasInt(row, "snaps", 60) /\ HasInt(row, "targets", 8)
    /\ HasInt(row, "catches", 5) /\ HasInt(row, "rec_yards", 58)
    /\ HasInt(row, "rush_yards", 23) /\ HasInt(row, "touchdowns", 0)
    /\ HasInt(row, "drops", 1) /\ HasInt(row, "missed_assignments", 0)
    /\ HasInt(row, "loafs", 0)
    /\ HasCodes(row, <<"E", "R", " ", "F", "D", " ", "C", "+", "1", "2">>)
    /\ "key_plays" \notin DOMAIN row

\* code_points 18, derived_keyplays 2, catch_rate 0.625, yards_per_target
\* 10.125
ScenarioRates ==
    /\ float(out["code_points"]) = Dec(18, 0)
    /\ out["derived_keyplays"] = PyInt(2)
    /\ out["catch_rate"] = Dec(0, 625)
    /\ out["yards_per_target"] = Dec(10, 125)

\* C3 as stated: the scenario row is graded B, with 80 <= score < 90.
C3_ScenarioGradedB ==
    pc = "done" /\ IsScenario(r) =>
        /\ ScenarioRates
        /\ FLe(Dec(80, 0), out["score"])
        /\ FLt(out["score"], Dec(90, 0))
        /\ out["grade"] = PyStr(<<"B">>)

\* C3, amended: the scenario row gets code_points 18, derived_keyplays 2,
\* catch_rate 0.625, yards_per_target 10.125 and the score of the composite
\* formula, 73 + 15*0.625 + 1.5 + 0 + 6*1 + 4*1 + 0.791 - 12*0.125 = 93.166,
\* which is grade A.
C3_ScenarioGradedA ==
    pc = "done" /\ IsScenario(r) =>
        /\ ScenarioRates
        /\ out["score"] = Dec(0, 73000 + 9375 + 1500 + 0 + 6000 + 4000 + 791 - 1500)
        /\ out["grade"] = PyStr(<<"A">>)

\* the scenario row was graded
C3_Witness == pc = "done" /\ IsScenario(r)

\* the raw counter columns of the input sheet
RawCounters == {"snaps", "targets", "catches", "rec_yards", "rush_yards",
                "touchdowns", "drops", "missed_assignments", "loafs"}

\* the value is a whole number or a float, not NaN and not text
IsNumeric(x) == x.t \in {"int", "float"}

\* every raw counter of the row is a number
WellFormed(row) == \A key \in RawCounters : key \in DOMAIN row /\ IsNumeric(row[key])

\* the row records no snaps
SnaplessRow(row) == "snaps" \in DOMAIN row /\ IsNumeric(row["snaps"]) /\ row["snaps"].v <= 0

\* C4 as stated: a row with snaps <= 0 leaves the engine with
\* missed_assignments = 0 and loafs = 0 in its output record, whatever the
\* raw columns and the codes held.
C4_SnapGatedOutput ==
    pc = "done" /\ SnaplessRow(r) =>
        /\ "missed_assignments" \in DOMAIN out /\ out["missed_assignments"] = PyInt(0)
        /\ "loafs" \in DOMAIN out /\ out["loafs"] = PyInt(0)

\* C5 as stated: a row whose codes cell is a non-empty string leaves the
\* engine with missed_assignments and loafs equal to the numbers of MA and L
\* tokens of the codes, whatever the raw columns held.
C5_OverrideOutput ==
    pc = "done" /\ IsStr(codes_str(r)) /\ codes_str(r).s # <<>> =>
        /\ "missed_assignments" \in DOMAIN out
        /\ out["missed_assignments"] = PyInt(parsed.counts["MA"])
        /\ "loafs" \in DOMAIN out
        /\ out["loafs"] = PyInt(parsed.counts["L"])

---------------------------------------------------------------------------
(* Properties of the parser, checked under SpecParse *)

\* the characters that end a token: white space, comma, semicolon and the
\* parentheses
IsDelimiter(ch) == ch \in Whitespace \cup {",", ";", "(", ")"}

\* the number of tokens of the text cs that are the code, in either case: the
\* places where the code starts right after a delimiter (or at the start) and
\* ends right before one (or at the end)
TokenCount(cs, code) ==
    Cardinality({i \in 1..Len(cs) :
        \E n \in 1..3 :
            /\ i + n - 1 <= Len(cs)
            /\ (i = 1 \/ IsDelimiter(cs[i - 1]))
            /\ (i + n - 1 = Len(cs) \/ IsDelimiter(cs[i + n]))
            /\ Join(Upper(SubSeq(cs, i, i + n - 1))) = code})

\* the sum of points(c) * counts[c] over a set of codes
RECURSIVE PointsOf(_, _)
PointsOf(counts, codes) ==
    IF codes = {} THEN 0
    ELSE LET c == CHOOSE x \in codes : TRUE
         IN  LEGEND_POINTS[c] * counts[c] + PointsOf(counts, codes \ {c})

\* the cell holds this text
AnnotationIs(text) == annotation = PyStr(text)

\* C6: for every annotation string the parser returns one count for each of
\* the 15 known codes, equal to the number of tokens that are that code, and
\* a total equal to the sum of points(c) * counts[c] over the known codes
\* plus half the catch and rush yardage; "TD ER C+12 MA" gives total 18,
\* TD = ER = MA = 1, catch yardage 12 and 2 derived key plays.
C6_ParserTotals ==
    pc = "parsed" /\ IsStr(annotation) =>
        /\ DOMAIN agg.counts = DOMAIN LEGEND_POINTS
        /\ Cardinality(DOMAIN agg.counts) = 15
        /\ \A c \in DOMAIN LEGEND_POINTS : agg.counts[c] = TokenCount(annotation.s, c)
        /\ float(agg.total) =
              FAdd(float(PyInt(PointsOf(agg.counts, DOMAIN LEGEND_POINTS))),
                   FMul(Dec(0, 500), float(PyInt(agg.yards_c + agg.yards_r))))
        /\ AnnotationIs(<<"T", "D", " ", "E", "R", " ", "C", "+", "1", "2", " ", "M", "A">>) =>
              /\ float(agg.total) = Dec(18, 0)
              /\ agg.counts["TD"] = 1 /\ agg.counts["ER"] = 1 /\ agg.counts["MA"] = 1
              /\ agg.yards_c = 12
              /\ agg.derived_keyplays = 2

\* a cell of codes and yardage in mixed case was parsed: one lower-case
\* touchdown, one missed assignment, yardage in the total
C6_Witness ==
    /\ pc = "parsed"
    /\ IsStr(annotation)
    /\ agg.counts["TD"] = 1
    /\ TokenCount(annotation.s, "TD") = 1
    /\ \E i \in 1..Len(annotation.s) : annotation.s[i] = "t"
    /\ agg.counts["MA"] >= 1
    /\ agg.yards_c # 0

\* the cell holds nothing to parse: no string, or only white space
BlankAnnotation == ~IsStr(annotation) \/ \A i \in 1..Len(annotation.s) : annotation.s[i] \in Whitespace

---------------------------------------------------------------------------
(* Key plays, division and coercion, checked under Spec *)

\* the row supplies a key-play count that is a number above zero
ExplicitKeyPlays(row) ==
    /\ "key_plays" \in DOMAIN row
    /\ IsNumeric(row["key_plays"])
    /\ row["key_plays"].v > 0

\* C8: the key-play count behind keyplays_per30 is the key_plays input when
\* that is a number above zero, and the parser's derived count when it is
\* absent, zero, negative or not a number; key_plays = 0 with codes deriving
\* 3 key plays uses 3.
C8_KeyPlayResolution ==
    /\ pc \in {"rates", "score", "letter", "return", "done"} =>
          /\ ExplicitKeyPlays(r) => keyplays = r["key_plays"]
          /\ ~ExplicitKeyPlays(r) => keyplays = PyInt(parsed.derived_keyplays)
    /\ pc = "done" =>
          /\ out["keyplays_per30"] = per30(keyplays, snaps(r))
          /\ out["derived_keyplays"] = PyInt(parsed.derived_keyplays)
          /\ HasInt(r, "key_plays", 0) /\ parsed.derived_keyplays = 3 /\ HasInt(r, "snaps", 60) =>
                out["keyplays_per30"] = Dec(1, 500)

\* a row with key_plays = 0 and three derived key plays in 60 snaps was
\* graded
C8_Witness ==
    /\ pc = "done"
    /\ HasInt(r, "key_plays", 0)
    /\ HasInt(r, "snaps", 60)
    /\ parsed.derived_keyplays = 3
    /\ out["keyplays_per30"] = Dec(1, 500)

\* C9: a zero denominator never makes a rate raise or come out undefined:
\* with targets = 0 the row is graded with catch_rate, drops_rate and
\* yards_per_target 0.0, with snaps <= 0 it is graded with the five per-30
\* rates 0.0, and the only exception compute_row raises comes from adding
\* the yardage columns, not from a division.
C9_DivisionSafety ==
    /\ pc = "done" /\ HasInt(r, "targets", 0) =>
          /\ out["catch_rate"] = Dec(0, 0)
          /\ out["drops_rate"] = Dec(0, 0)
          /\ out["yards_per_target"] = Dec(0, 0)
    /\ pc = "done" /\ SnaplessRow(r) =>
          /\ out["tds_per30"] = Dec(0, 0)
          /\ out["keyplays_per30"] = Dec(0, 0)
          /\ out["targets_per30"] = Dec(0, 0)
          /\ out["loafs_per30"] = Dec(0, 0)
          /\ out["ma_per30"] = Dec(0, 0)
    /\ pc = "raised" => exc = "TypeError" /\ ~CanAdd(rec_yards(r), rush_yards(r))
    /\ WellFormed(r) => pc # "raised"

\* a row with negative snaps, targets and discipline entries was graded
C9_Witness ==
    /\ pc = "done"
    /\ r["snaps"] = PyInt(-3)
    /\ HasInt(r, "targets", 8)
    /\ HasInt(r, "missed_assignments", 2)
    /\ out["targets_per30"] = Dec(0, 0)

\* the row with every raw counter that is missing or not a number set to 0
Coerced(row) ==
    [key \in DOMAIN row |->
        IF key \in RawCounters /\ (~CanFloat(row[key]) \/ IsNaN(row[key]))
        THEN PyInt(0) ELSE row[key]]

\* C10 as stated: the engine raises on no row, and a raw counter that is not
\* a number or is missing acts as 0 in every rate it feeds.
C10_SafeCoercion ==
    /\ pc # "raised"
    /\ pc = "done" =>
          \A name \in {"catch_rate", "yards_per_target", "tds_per30", "targets_per30",
                       "drops_rate"} :
              out[name] = CoreRateValues(Coerced(r), ma, loafs, keyplays)[name]

---------------------------------------------------------------------------
(* Properties of a whole run of main(), checked under SpecMain *)

\* the rows df.apply has graded so far
Graded == 1..Len(calc_rows)

RunEnded == pc \in {"finished", "raised", "exited"}

C13_MissingColumnAborts ==
    /\ pc = "exited" =>
          /\ exc = "SystemExit"
          /\ message # <<>>
          /\ {message[k] : k \in 1..Len(message)} =
                {REQUIRED_COLS_BASE[k] : k \in 1..Len(REQUIRED_COLS_BASE)} \ ColumnNames(df)
          /\ calc_rows = <<>>
          /\ out_df = <<>>
          /\ files = {}
    /\ pc \in {"apply", "mkdir", "to_csv", "summary", "reports", "finished"} =>
          \A k \in 1..Len(REQUIRED_COLS_BASE) : REQUIRED_COLS_BASE[k] \in ColumnNames(df)
    /\ calc_rows # <<>> \/ out_df # <<>> \/ files # {} =>
          \A k \in 1..Len(REQUIRED_COLS_BASE) : REQUIRED_COLS_BASE[k] \in ColumnNames(df)

\* a sheet without player and loafs columns was rejected
C13_Witness ==
    /\ pc = "exited"
    /\ message = <<"player", "loafs">>
    /\ files = {}

\* a label without its spaces and underscores, in lower case
Squash(c) ==
    LET Kept(ch) == ch \notin {" ", "_"}
    IN  SelectSeq(Lower(c), Kept)

\* C14 as stated: a header equal to a required column name up to letter
\* case, spaces and underscores is renamed to the canonical name, and the
\* sheet passes the required-column check.
C14_HeadersNormalized ==
    pc \notin {"merge", "normalize", "raised"} =>
        /\ \A k \in 1..Len(df_raw.columns), j \in 1..Len(CanonicalLabels) :
              Squash(df_raw.columns[k]) = Squash(CanonicalLabels[j]) =>
                  df.columns[k] = CanonicalLabels[j]
        /\ (\A j \in 1..Len(CanonicalLabels) : \E k \in 1..Len(df_raw.columns) :
                Squash(df_raw.columns[k]) = Squash(CanonicalLabels[j])) => pc # "exited"

\* the text of a cell, empty for an empty cell
CellText(cell) == IF IsStr(cell) THEN cell.s ELSE <<>>

\* the cell of row i under the column at position k, empty when k is 0
CellAt(frame, i, k) == IF k = 0 THEN <<>> ELSE CellText(frame.data[i][k])

\* C15 as stated: with a "key play ++" column, a "key play --" column or
\* both, the merge gives every row a codes string made of the old codes (if
\* the sheet has a codes column), then the positives, then the negatives.
C15_KeyPlayMerge ==
    [][pc = "merge" /\ MergeEntered(df_raw) =>
          /\ pc' = "normalize"
          /\ CodesColumn(df_raw') # 0
          /\ \A i \in 1..Len(df_raw.data) :
                Tokens(CellAt(df_raw', i, CodesColumn(df_raw'))) =
                    Tokens(CellAt(df_raw, i, CodesColumn(df_raw)))
                    \o Tokens(CellAt(df_raw, i, pos_col(df_raw)))
                    \o Tokens(CellAt(df_raw, i, neg_col(df_raw)))]_vars

---------------------------------------------------------------------------
(* Step order, override and score formula, checked under Spec *)

\* the positions compute_row can move to from each position
StepAfter == [idle |-> {"gate"}, gate |-> {"parse"}, parse |-> {"override", "raised"},
              override |-> {"resolve"}, resolve |-> {"rates"}, rates |-> {"score", "raised"},
              score |-> {"letter"}, letter |-> {"return"}, return |-> {"done"},
              done |-> {"idle"}, raised |-> {}]

\* C16: compute_row gates the discipline counters, then parses all of the
\* codes, then overrides the counters from the MA and L counts, then
\* resolves the key plays, then computes the rates, then the score, then the
\* letter; each step uses what the steps before it left, and the rates use
\* the counters after the override and the key plays after the resolution.
C16_StepOrder ==
    [][/\ pc' \in StepAfter[pc]
       /\ pc' = "parse" =>
             /\ ma' = (IF SnapsVal(r) <= 0 THEN PyInt(0) ELSE ma_in(r))
             /\ loafs' = (IF SnapsVal(r) <= 0 THEN PyInt(0) ELSE loafs_in(r))
       /\ pc' = "override" =>
             /\ parsed' = parse_codes_to_points(codes_str(r))
             /\ IsStr(codes_str(r)) =>
                   /\ parsed'.counts["MA"] = TokenCount(codes_str(r).s, "MA")
                   /\ parsed'.counts["L"] = TokenCount(codes_str(r).s, "L")
             /\ ma' = ma /\ loafs' = loafs /\ keyplays' = Unset
       /\ pc' = "resolve" =>
             /\ ma' = (IF CodesProvided(codes_str(r)) THEN PyInt(parsed.counts["MA"]) ELSE ma)
             /\ loafs' = (IF CodesProvided(codes_str(r)) THEN PyInt(parsed.counts["L"]) ELSE loafs)
             /\ keyplays' = Unset /\ rate' = NoRow
       /\ pc' = "rates" =>
             /\ keyplays' = ResolvedKeyplays(keyplays_in(r), parsed.derived_keyplays)
             /\ rate' = NoRow
       /\ pc' = "score" =>
             /\ rate'["ma_per30"] = per30(ma, snaps(r))
             /\ rate'["loafs_per30"] = per30(loafs, snaps(r))
             /\ rate'["keyplays_per30"] = per30(keyplays, snaps(r))
             /\ score' = Unset
       /\ pc' = "letter" => score' = ScoreValue(rate) /\ grade' = ""
       /\ pc' = "return" => grade' = letter(score)
       /\ pc' = "done" => out' = r @@ compute_row(r).value]_vars

\* a row whose raw discipline columns disagree with its codes went through
\* all the steps: the rates are those of the codes
C16_Witness ==
    /\ pc = "done"
    /\ HasInt(r, "missed_assignments", 2)
    /\ HasInt(r, "loafs", 0)
    /\ HasInt(r, "snaps", 60)
    /\ HasCodes(r, <<"M", "A", " ", "L", " ", "L">>)
    /\ out["ma_per30"] = Dec(0, 500)
    /\ out["loafs_per30"] = Dec(1, 0)

\* what a raw discipline cell may hold
DisciplineValues == {PyInt(0), PyInt(3), NaN, PyStr(<<"n", "/", "a">>)}

\* the row with other raw discipline counters
WithDiscipline(row, a, b) ==
    [row EXCEPT !["missed_assignments"] = a, !["loafs"] = b]

\* the graded row agrees in ma_per30, loafs_per30, score and grade with
\* every row that differs from it only in the raw discipline counters
DisciplineIgnored ==
    \A a, b \in DisciplineValues :
        LET other == compute_row(WithDiscipline(r, a, b))
        IN  /\ other.raised = ""
            /\ \A key \in {"ma_per30", "loafs_per30", "score", "grade"} :
                   other.value[key] = out[key]

\* C17 as stated: records that differ only in the raw missed_assignments
\* and loafs and carry the same non-empty codes string get the same
\* ma_per30, loafs_per30, score and grade.
C17_NonEmptyCodes ==
    pc = "done" /\ IsStr(codes_str(r)) /\ codes_str(r).s # <<>> => DisciplineIgnored

\* C17, amended: records that differ only in the raw missed_assignments and
\* loafs and carry the same codes string with at least one character that is
\* not white space get the same ma_per30, loafs_per30, score and grade.
C17_NonBlankCodes ==
    pc = "done" /\ IsStr(codes_str(r))
        /\ (\E i \in 1..Len(codes_str(r).s) : codes_str(r).s[i] \notin Whitespace)
    => DisciplineIgnored

\* a row with codes, no targets and raw discipline counters that disagree
\* with the codes was graded
C17_Witness ==
    /\ pc = "done"
    /\ HasCodes(r, <<"M", "A", " ", "L", " ", "L">>)
    /\ HasInt(r, "missed_assignments", 2)
    /\ HasInt(r, "loafs", 1)
    /\ HasInt(r, "targets", 0)
    /\ HasInt(r, "snaps", 60)

\* the smaller of a value and its cap
Capped(x, cap) == IF FLt(cap, x) THEN cap ELSE x

\* the square root, 0 for a value that is zero or negative
RootOrZero(x) == IF FLt(Dec(0, 0), x) THEN sqrt(x) ELSE Dec(0, 0)

\* every rate is a number
FiniteRates(rt) == rt # NoRow /\ \A key \in DOMAIN rt : rt[key].t = "float"

keyplays_term(rt) == FMul(Dec(6, 0), Capped(RootOrZero(rt.keyplays_per30), Dec(1, 330)))

ma_penalty(rt) == FMul(Dec(9, 0), Capped(rt.ma_per30, Dec(1, 0)))

positive(rt) ==
    LET ypt8 == FDiv(rt.yards_per_target, Dec(8, 0))
    IN  FAdd(FMul(Dec(15, 0), rt.catch_rate),
        FAdd(FMul(Dec(1, 500), Capped(ypt8, Dec(1, 0))),
        FAdd(FMul(Dec(12, 0), Capped(rt.tds_per30, Dec(1, 0))),
        FAdd(keyplays_term(rt),
        FAdd(FMul(Dec(4, 0), Capped(rt.targets_per30, Dec(1, 0))),
             FMul(Dec(1, 0), Capped(FMul(rt.catch_rate, ypt8), Dec(1, 0))))))))

negative(rt) ==
    FAdd(FMul(Dec(12, 0), rt.drops_rate),
    FAdd(FMul(Dec(4, 0), rt.loafs_per30), ma_penalty(rt)))

\* C18: for every record with numeric rates the score is 73 + positive -
\* negative kept within 0..100, with positive = 15*catch_rate +
\* 1.5*min(ypt/8, 1) + 12*min(tds_per30, 1) + 6*min(sqrt(keyplays_per30), 1.33)
\* + 4*min(targets_per30, 1) + min(catch_rate*ypt/8, 1) and negative =
\* 12*drops_rate + 4*loafs_per30 + 9*min(ma_per30, 1); the root of a zero or
\* negative keyplays_per30 is 0, the key-play term is at most 7.98, the
\* missed-assignment penalty at most 9, the loafs and drops penalties have
\* no cap.
C18_ScoreFormula ==
    pc \in {"letter", "return", "done"} /\ FiniteRates(rate) =>
        LET raw == FSub(FAdd(Dec(73, 0), positive(rate)), negative(rate))
        IN  /\ score = (IF FLt(raw, Dec(0, 0)) THEN Dec(0, 0)
                        ELSE IF FLt(Dec(100, 0), raw) THEN Dec(100, 0) ELSE raw)
            /\ FLe(keyplays_term(rate), Dec(7, 980))
            /\ FLe(rate.keyplays_per30, Dec(0, 0)) => keyplays_term(rate) = Dec(0, 0)
            /\ FLe(ma_penalty(rate), Dec(9, 0))

\* a row with two loafs in 30 snaps was graded: the loafs cost 8 points
C18_Witness ==
    /\ pc = "done"
    /\ FiniteRates(rate)
    /\ rate.loafs_per30 = Dec(2, 0)
    /\ score = Dec(90, 0)

---------------------------------------------------------------------------
(* Unmatched and yardage tokens, checked under SpecParse *)

\* the last position of the token that starts at position i
RECURSIVE TokenEnd(_, _)
TokenEnd(cs, i) ==
    IF i = Len(cs) \/ IsDelimiter(cs[i + 1]) THEN i ELSE TokenEnd(cs, i + 1)

\* the tokens of a text as pairs of first and last position: a run of
\* characters free of delimiters with a delimiter or an end on either side
TokenSpans(cs) ==
    {<<i, TokenEnd(cs, i)>> :
        i \in {k \in 1..Len(cs) :
                  ~IsDelimiter(cs[k]) /\ (k = 1 \/ IsDelimiter(cs[k - 1]))}}

\* the token at a span, and the text without it
TokenAt(cs, span) == SubSeq(cs, span[1], span[2])
Without(cs, span) == SubSeq(cs, 1, span[1] - 1) \o SubSeq(cs, span[2] + 1, Len(cs))

\* the value of a text of decimal digits
RECURSIVE NumberOf(_)
NumberOf(ds) ==
    IF ds = <<>> THEN 0
    ELSE 10 * NumberOf(SubSeq(ds, 1, Len(ds) - 1))
         + (CHOOSE d \in 0..9 : ToString(d) = ds[Len(ds)])

\* the token is X+N: the letter in either case, a plus sign, a signed integer
IsYardage(tok, initial) ==
    /\ Len(tok) >= 3
    /\ tok[2] = "+"
    /\ Upper(<<tok[1]>>) = <<initial>>
    /\ LET from == IF tok[3] = "-" THEN 4 ELSE 3
       IN  /\ from <= Len(tok)
           /\ \A k \in from..Len(tok) : tok[k] \in Digits

\* the N of a token X+N
YardsOf(tok) ==
    IF tok[3] = "-" THEN 0 - NumberOf(SubSeq(tok, 4, Len(tok)))
    ELSE NumberOf(SubSeq(tok, 3, Len(tok)))

\* the token is one of the 15 codes, in either case
IsCode(tok) == Len(tok) <= 3 /\ Join(Upper(tok)) \in DOMAIN LEGEND_POINTS

IsUnmatched(tok) == ~IsYardage(tok, "C") /\ ~IsYardage(tok, "R") /\ ~IsCode(tok)

\* C19: a token that is neither a known code (in either case) nor a C+N or
\* R+N yardage has no effect wherever it stands in an annotation: the five
\* aggregates are those of the annotation without the token, and nothing is
\* raised.
C19_UnmatchedIgnored ==
    pc = "parsed" /\ IsStr(annotation) =>
        /\ agg.raised = ""
        /\ \A span \in TokenSpans(annotation.s) :
              IsUnmatched(TokenAt(annotation.s, span)) =>
                  parse_codes_to_points(PyStr(Without(annotation.s, span))) = agg

\* a cell holding a missed assignment and the unmatched token C-5 was
\* parsed: only the missed assignment counts
C19_Witness ==
    /\ pc = "parsed"
    /\ IsStr(annotation)
    /\ \E span \in TokenSpans(annotation.s) : TokenAt(annotation.s, span) = <<"C", "-", "5">>
    /\ agg.counts["MA"] = 1
    /\ agg.total = PyInt(-10)
    /\ agg.yards_c = 0
    /\ agg.yards_r = 0

\* the aggregates after one more yardage token of n yards
PlusYards(acc, n, field) ==
    [acc EXCEPT !.total  = FAdd(float(@), PyFloat(n * (Scale \div 2))),
                ![field] = @ + n]

\* C20: for every signed integer N a token C+N adds 0.5*N to the total and
\* N to the catch yardage, a token R+N adds 0.5*N to the total and N to the
\* rush yardage, in either case of the letter and wherever the token stands;
\* the other yardage sum, every count and the derived key plays are those of
\* the annotation without the token. "C+-5" alone gives a total of -2.5 and
\* catch yardage -5.
C20_YardageTokens ==
    pc = "parsed" /\ IsStr(annotation) =>
        /\ \A span \in TokenSpans(annotation.s) :
              LET tok  == TokenAt(annotation.s, span)
                  rest == parse_codes_to_points(PyStr(Without(annotation.s, span)))
              IN  /\ IsYardage(tok, "C") => agg = PlusYards(rest, YardsOf(tok), "yards_c")
                  /\ IsYardage(tok, "R") => agg = PlusYards(rest, YardsOf(tok), "yards_r")
        /\ AnnotationIs(<<"C", "+", "-", "5">>) =>
              /\ agg.total = PyFloat(-5 * (Scale \div 2))
              /\ agg.counts = ZeroAggregates.counts
              /\ agg.yards_c = -5
              /\ agg.yards_r = 0
              /\ agg.derived_keyplays = 0

\* the cell "C+-5" was parsed
C20_Witness ==
    /\ pc = "parsed"
    /\ AnnotationIs(<<"C", "+", "-", "5">>)
    /\ agg.yards_c = -5
    /\ float(agg.total) = Dec(-3, 500)

---------------------------------------------------------------------------
(* The key-play-eligible set, checked under SpecCells *)

\* the sum of counts[c] over a set of codes
RECURSIVE CountOf(_, _)
CountOf(counts, codes) ==
    IF codes = {} THEN 0
    ELSE LET c == CHOOSE x \in codes : TRUE
         IN  counts[c] + CountOf(counts, codes \ {c})

\* the token is one of these codes, in either case
IsCodeOf(tok, codes) == Len(tok) <= 3 /\ Join(Upper(tok)) \in codes

\* C21: after parsing any annotation the derived key plays are the sum of
\* the counts of TD, SC, ER, GR, GB, P, FD and E, and of no other code; a
\* token H, W, BR, L, NFS, MA or DP and a yardage token leave the derived
\* key plays what they are for the annotation without that token.
C21_KeyPlayEligibleSet ==
    pc = "parsed" /\ IsStr(annotation) =>
        /\ agg.derived_keyplays =
              CountOf(agg.counts, {"TD", "SC", "ER", "GR", "GB", "P", "FD", "E"})
        /\ \A span \in TokenSpans(annotation.s) :
              LET tok == TokenAt(annotation.s, span)
              IN  \/ IsCodeOf(tok, {"H", "W", "BR", "L", "NFS", "MA", "DP"})
                  \/ IsYardage(tok, "C")
                  \/ IsYardage(tok, "R")
                  => parse_codes_to_points(PyStr(Without(annotation.s, span))).derived_keyplays
                        = agg.derived_keyplays

\* a cell with a hustle play, a whiff and an explosive reception was parsed:
\* one derived key play
C21_Witness ==
    /\ pc = "parsed"
    /\ IsStr(annotation)
    /\ agg.counts["H"] = 1
    /\ agg.counts["W"] = 1
    /\ agg.counts["ER"] = 1
    /\ agg.derived_keyplays = 1

---------------------------------------------------------------------------
(* Parentheses, delimiters and letter case, checked under SpecCells *)

Parentheses == {"(", ")"}

HasParenthesis(cs) == \E i \in 1..Len(cs) : cs[i] \in Parentheses

\* the text with every parenthesis taken out
ParensStripped(cs) == SelectSeq(cs, LAMBDA ch : ch \notin Parentheses)

\* the text with a space in the place of every parenthesis
ParensSpaced(cs) == [i \in 1..Len(cs) |-> IF cs[i] \in Parentheses THEN " " ELSE cs[i]]

\* C22 as stated: parsing an annotation and parsing it with every "(" and
\* ")" stripped give the same five aggregates.
C22_ParensStripped ==
    pc = "parsed" /\ IsStr(annotation) /\ HasParenthesis(annotation.s) =>
        parse_codes_to_points(PyStr(ParensStripped(annotation.s))) = agg

\* C22, amended: parsing an annotation and parsing it with a space in the
\* place of every "(" and ")" give the same five aggregates; a parenthesis
\* ends a token just as a space does.
C22_ParensSpaced ==
    pc = "parsed" /\ IsStr(annotation) /\ HasParenthesis(annotation.s) =>
        parse_codes_to_points(PyStr(ParensSpaced(annotation.s))) = agg

\* a cell in which a parenthesis stands between two codes, nothing else
\* separating them, was parsed: both codes count
C22_Witness ==
    /\ pc = "parsed"
    /\ IsStr(annotation)
    /\ \E i \in 3..(Len(annotation.s) - 1) :
          /\ annotation.s[i] \in Parentheses
          /\ SubSeq(annotation.s, i - 2, i - 1) = <<"M", "A">>
          /\ annotation.s[i + 1] = "L"
          /\ i + 1 = Len(annotation.s)
    /\ agg.counts["MA"] = 1
    /\ agg.counts["L"] = 1

\* white space, comma and semicolon
IsRunCharacter(ch) == ch \in {" ", "\t", ",", ";"}

\* the text with one space in the place of every run of white space, commas
\* and semicolons that is followed by another character, and nothing in the
\* place of a run that ends the text
RECURSIVE Collapse(_)
Collapse(cs) ==
    IF cs = <<>> THEN <<>>
    ELSE IF ~IsRunCharacter(Head(cs)) THEN <<Head(cs)>> \o Collapse(Tail(cs))
    ELSE IF Len(cs) = 1 \/ IsRunCharacter(cs[2]) THEN Collapse(Tail(cs))
    ELSE <<" ">> \o Collapse(Tail(cs))

\* the same, the run that starts the text dropped as well
SingleSpaced(cs) ==
    LET c == Collapse(cs)
    IN  IF c # <<>> /\ c[1] = " " THEN Tail(c) ELSE c

\* C23: a non-empty run of white space, commas and semicolons between two
\* tokens counts as one space and a run at either end of the annotation as
\* nothing: the annotation and its single-spaced form parse to the same
\* aggregates; "(ER) (C+12) (FD)", "ER; C+12; FD" and "ER C+12 FD" parse to
\* the same aggregates.
C23_DelimiterEquivalence ==
    /\ pc = "parsed" /\ IsStr(annotation) =>
          parse_codes_to_points(PyStr(SingleSpaced(annotation.s))) = agg
    /\ /\ pc = "parsed"
       /\ \/ AnnotationIs(<<"(", "E", "R", ")", " ", "(", "C", "+", "1", "2", ")", " ", "(", "F", "D", ")">>)
          \/ AnnotationIs(<<"E", "R", ";", " ", "C", "+", "1", "2", ";", " ", "F", "D">>)
          \/ AnnotationIs(<<"E", "R", " ", "C", "+", "1", "2", " ", "F", "D">>)
       => agg = [ZeroAggregates EXCEPT !.total = Dec(18, 0),
                                       !.counts["ER"] = 1,
                                       !.counts["FD"] = 1,
                                       !.yards_c = 12,
                                       !.derived_keyplays = 2]

\* the cell "ER; C+12; FD" with a trailing run of comma and semicolon was
\* parsed
C23_Witness ==
    /\ pc = "parsed"
    /\ AnnotationIs(<<"E", "R", ";", " ", "C", "+", "1", "2", ";", " ", "F", "D", ",", ";">>)
    /\ agg.counts["ER"] = 1
    /\ agg.counts["FD"] = 1
    /\ agg.yards_c = 12
    /\ agg.total = Dec(18, 0)

\* C24: an annotation, its all-lower-case form and its all-upper-case form
\* parse to the same aggregates, the counts always under the 15 upper-case
\* codes: "td" counts as TD and "c+12" as catch yardage.
C24_CaseInsensitive ==
    /\ pc = "parsed" /\ IsStr(annotation) =>
          /\ DOMAIN agg.counts = DOMAIN LEGEND_POINTS
          /\ parse_codes_to_points(PyStr(Lower(annotation.s))) = agg
          /\ parse_codes_to_points(PyStr(Upper(annotation.s))) = agg
    /\ pc = "parsed" /\ AnnotationIs(<<"t", "d", " ", "c", "+", "1", "2">>) =>
          /\ agg.counts["TD"] = 1
          /\ agg.yards_c = 12
          /\ agg.yards_r = 0
          /\ agg.total = Dec(21, 0)

\* a cell with a lower-case touchdown and a lower-case rush yardage was
\* parsed
C24_Witness ==
    /\ pc = "parsed"
    /\ AnnotationIs(<<"t", "d", " ", "c", "+", "1", "2", " ", "r", "+", "-", "3">>)
    /\ agg.counts["TD"] = 1
    /\ agg.yards_c = 12
    /\ agg.yards_r = -3
    /\ agg.total = Dec(19, 500)

---------------------------------------------------------------------------
(* Additivity of the parser, checked under SpecCells *)

\* the componentwise sum of two results of the parser
SumOf(a, b) ==
    [total            |-> add(a.total, b.total),
     counts           |-> [c \in DOMAIN a.counts |-> a.counts[c] + b.counts[c]],
     yards_c          |-> a.yards_c + b.yards_c,
     yards_r          |-> a.yards_r + b.yards_r,
     derived_keyplays |-> a.derived_keyplays + b.derived_keyplays,
     raised           |-> ""]

\* the positions of the spaces of a text
Spaces(cs) == {p \in 1..Len(cs) : cs[p] = " "}

\* C27: for all strings a and b, parsing a, a space and b gives the
\* componentwise sum of parsing a and parsing b: the points, each count,
\* the two yardage sums and the derived key plays; b, a space and a parse
\* to the same. Stated for every way of reading the annotation as a, a
\* space and b.
C27_Additive ==
    pc = "parsed" /\ IsStr(annotation) =>
        \A p \in Spaces(annotation.s) :
            LET a == SubSeq(annotation.s, 1, p - 1)
                b == SubSeq(annotation.s, p + 1, Len(annotation.s))
            IN  /\ agg = SumOf(parse_codes_to_points(PyStr(a)), parse_codes_to_points(PyStr(b)))
                /\ agg = parse_codes_to_points(PyStr(b \o <<" ">> \o a))

\* a cell read as "TD ER", a space and "C+12 MA" followed by a rush yardage
\* was parsed: both halves have points, counts and yardage
C27_Witness ==
    /\ pc = "parsed"
    /\ AnnotationIs(<<"T", "D", " ", "E", "R", " ", "C", "+", "1", "2", " ", "M", "A", " ", "r", "+", "-", "3">>)
    /\ agg.counts["TD"] = 1
    /\ agg.counts["MA"] = 1
    /\ agg.yards_c = 12
    /\ agg.yards_r = -3
    /\ agg.total = Dec(16, 500)

---------------------------------------------------------------------------
(* The graded record, checked under SpecMain *)

RawFields == {"player", "week", "snaps", "targets", "catches", "rec_yards", "rush_yards",
              "touchdowns", "drops", "missed_assignments", "loafs"}

RateFields == {"catch_rate", "yards_per_target", "tds_per30", "keyplays_per30",
               "targets_per30", "drops_rate", "loafs_per30", "ma_per30"}

CountFields == {"cnt_td", "cnt_e", "cnt_er", "cnt_gr", "cnt_gb", "cnt_p", "cnt_fd", "cnt_ma",
                "cnt_sc", "cnt_dp", "cnt_h", "cnt_br", "cnt_l", "cnt_nfs", "cnt_w"}

\* C25: grading leaves the sheet as it was read, and every row written out
\* holds each field of its input row unchanged (player, week, the nine
\* counters, and key_plays and codes where the sheet has them) together with
\* the eight rates, score, grade, code_points equal to the parser's total,
\* derived_keyplays and one integer count for each of the 15 codes.
C25_RawPassThrough ==
    pc = "mkdir" =>
        /\ df = normalize_cols(df_raw)
        /\ Len(out_df) = Len(df.data)
        /\ \A i \in 1..Len(out_df) :
              LET row == RowOf(df, i)
                  rec == out_df[i]
                  pr  == parse_codes_to_points(codes_str(row))
              IN  /\ RawFields \subseteq DOMAIN row
                  /\ \A field \in DOMAIN row : field \in DOMAIN rec /\ rec[field] = row[field]
                  /\ RateFields \cup CountFields
                        \cup {"score", "grade", "code_points", "derived_keyplays"}
                        \subseteq DOMAIN rec
                  /\ \A field \in RateFields \cup {"score"} : rec[field].t \in {"float", "nan"}
                  /\ rec["grade"].s \in {<<"A">>, <<"B">>, <<"C">>, <<"D">>, <<"F">>}
                  /\ rec["code_points"] = pr.total
                  /\ rec["derived_keyplays"] = PyInt(pr.derived_keyplays)
                  /\ \A field \in CountFields : rec[field].t = "int"

\* a row with codes and key plays was graded and put together: the raw
\* fields and the computed ones stand side by side
C25_Witness ==
    /\ pc = "mkdir"
    /\ Len(out_df) = 1
    /\ {"key_plays", "codes"} \subseteq DOMAIN out_df[1]
    /\ out_df[1]["key_plays"] = PyInt(3)
    /\ out_df[1]["codes"] = PyStr(<<"T", "D", ",", " ", "E", "R", ";", " ", "C", "+", "1", "2", " ", "d", "p">>)
    /\ out_df[1]["player"] = PyStr(<<"A", "l">>)
    /\ out_df[1]["code_points"] = Dec(13, 0)
    /\ out_df[1]["cnt_dp"] = PyInt(1)
    /\ out_df[1]["derived_keyplays"] = PyInt(2)

---------------------------------------------------------------------------
(* What the score depends on, checked under Spec *)

\* tokens that are neither MA, L nor a key play
NeutralTokens == {<<"D", "P">>, <<"n", "f", "s">>, <<"W">>, <<"B", "R">>, <<"H">>, <<"C", "+", "7">>, <<"r", "+", "-", "2">>}

\* codes strings to compare a row's codes with
CodesPool == {<<"x", "9">>, <<"M", "A">>, <<"d", "p", " ", "m", "a">>, <<"L", " ", "M", "A", " ", "L">>, <<"(", "l", ")", " ", "(", "l", ")", " ", "m", "a", " ", "C", "+", "3", "0">>,
              <<"f", "d", " ", "e", "r">>, <<"P", ";", " ", "G", "R", ",", " ", "g", "b">>, <<"H">>, <<" ">>}

KeyPlayCodes == {"TD", "SC", "ER", "GR", "GB", "P", "FD", "E"}

\* the number of tokens of a text that are one of the codes, in either case
Tally(cs, codes) ==
    Cardinality({span \in TokenSpans(cs) : IsCodeOf(TokenAt(cs, span), codes)})

\* as many MA tokens, L tokens and key-play tokens in one text as in the other
SameTally(a, b) ==
    /\ Tally(a, {"MA"}) = Tally(b, {"MA"})
    /\ Tally(a, {"L"}) = Tally(b, {"L"})
    /\ Tally(a, KeyPlayCodes) = Tally(b, KeyPlayCodes)

HasNonBlank(cs) == \E i \in 1..Len(cs) : cs[i] \notin Whitespace

\* the row with another codes string
WithCodes(row, cs) == ("codes" :> PyStr(cs)) @@ row

\* the graded row agrees in score and grade with every row of the pool that
\* has the same tally and differs from it in the codes only, and in the
\* rates, score and grade with the row that has one more neutral token;
\* DP changes the code points and C+7 the catch yardage
ScoreIgnoresPoints(pool) ==
    /\ \A cs \in pool :
          SameTally(cs, codes_str(r).s) =>
              LET other == compute_row(WithCodes(r, cs))
              IN  /\ other.raised = ""
                  /\ other.value["score"] = out["score"]
                  /\ other.value["grade"] = out["grade"]
    /\ \A tok \in NeutralTokens :
          LET other == compute_row(WithCodes(r, codes_str(r).s \o <<" ">> \o tok))
          IN  /\ other.raised = ""
              /\ \A key \in RateFields \cup {"score", "grade"} : other.value[key] = out[key]
              /\ tok = <<"D", "P">> => other.value["code_points"] # out["code_points"]
              /\ tok = <<"C", "+", "7">> =>
                    other.value["code_catch_yards"].v = out["code_catch_yards"].v + 7

\* C26 as stated: two records equal in the raw counters and key_plays whose
\* non-empty codes strings hold the same number of MA, of L and of key-play
\* tokens get the same score and grade; one more DP, NFS, W, BR, H, C+N or
\* R+N token in a non-empty annotation changes the code points or the
\* yardage sums but not the rates, the score or the grade.
C26_NonEmptyCodes ==
    pc = "done" /\ IsStr(codes_str(r)) /\ codes_str(r).s # <<>> =>
        ScoreIgnoresPoints({cs \in CodesPool : cs # <<>>})

\* C26, amended: the same for codes strings with at least one character that
\* is not white space.
C26_NonBlankCodes ==
    pc = "done" /\ IsStr(codes_str(r)) /\ HasNonBlank(codes_str(r).s) =>
        ScoreIgnoresPoints({cs \in CodesPool : HasNonBlank(cs)})

\* a row with snaps, raw discipline counters and the codes "MA L L" was
\* graded: "(l) (l) ma C+30" has the same tally and other code points
C26_Witness ==
    /\ pc = "done"
    /\ HasCodes(r, <<"M", "A", " ", "L", " ", "L">>)
    /\ HasInt(r, "snaps", 60)
    /\ HasInt(r, "missed_assignments", 2)
    /\ SameTally(<<"(", "l", ")", " ", "(", "l", ")", " ", "m", "a", " ", "C", "+", "3", "0">>, codes_str(r).s)
    /\ out["code_points"] = PyInt(-14)
    /\ compute_row(WithCodes(r, <<"(", "l", ")", " ", "(", "l", ")", " ", "m", "a", " ", "C", "+", "3", "0">>)).value["code_points"] = Dec(1, 0)

---------------------------------------------------------------------------
(* Monotonicity of the score, checked under Spec *)

\* by how much a counter is raised
Increments == {1, 2, 5, 30}

\* the row with a counter raised
Raised(row, field, inc) == [row EXCEPT ![field] = PyInt(@.v + inc)]

\* the row with its key plays raised; a row without the column has none
MoreKeyPlays(row, inc) ==
    ("key_plays" :> PyInt(Get(row, "key_plays", PyInt(0)).v + inc)) @@ row

\* the score compute_row gives a row
ScoreOf(row) == compute_row(row).value["score"]

\* a row of whole numbers with empty codes, snaps and targets
PlainRow(row) ==
    /\ \A key \in RawCounters : key \in DOMAIN row /\ row[key].t = "int"
    /\ Get(row, "key_plays", PyInt(0)).t = "int"
    /\ codes_str(row) = PyStr(<<>>)
    /\ row["snaps"].v > 0
    /\ row["targets"].v > 0

\* C28: for a record with empty codes, snaps > 0 and targets > 0, more
\* drops, more missed assignments or more loafs, every other field as it
\* was, never give a higher score, and more touchdowns or more resolved key
\* plays never give a lower one.
C28_Monotone ==
    pc = "done" /\ PlainRow(r) =>
        \A inc \in Increments :
            /\ \A field \in {"drops", "missed_assignments", "loafs"} :
                  FLe(ScoreOf(Raised(r, field, inc)), out["score"])
            /\ FLe(out["score"], ScoreOf(Raised(r, "touchdowns", inc)))
            /\ ResolvedKeyplays(keyplays_in(r), 0).v
                  <= ResolvedKeyplays(keyplays_in(MoreKeyPlays(r, inc)), 0).v
            /\ FLe(out["score"], ScoreOf(MoreKeyPlays(r, inc)))

\* a row scoring between 0 and 100 was graded; one more missed assignment
\* lowers its score and one more touchdown raises it
C28_Witness ==
    /\ pc = "done"
    /\ PlainRow(r)
    /\ FLt(Dec(0, 0), out["score"])
    /\ FLt(out["score"], Dec(100, 0))
    /\ FLt(ScoreOf(Raised(r, "missed_assignments", 1)), out["score"])
    /\ FLt(ScoreOf(Raised(r, "drops", 1)), out["score"])
    /\ FLt(out["score"], ScoreOf(Raised(r, "touchdowns", 1)))
    /\ FLt(out["score"], ScoreOf(MoreKeyPlays(r, 1)))

---------------------------------------------------------------------------
(* When the discipline override applies, checked under Spec *)

\* the codes cell is a string with a character that is not white space
NonBlankCodes(row) == IsStr(codes_str(row)) /\ HasNonBlank(codes_str(row).s)

\* the discipline counters the rates are computed from: the MA and L token
\* counts of a non-blank codes string, the snap-gated raw counters otherwise
ExpectedDiscipline(row) ==
    IF NonBlankCodes(row)
    THEN [ma    |-> PyInt(Tally(codes_str(row).s, {"MA"})),
          loafs |-> PyInt(Tally(codes_str(row).s, {"L"}))]
    ELSE [ma    |-> Gated(SnapsVal(row), ma_in(row)),
          loafs |-> Gated(SnapsVal(row), loafs_in(row))]

\* C29: the override is applied exactly when codes is a string with at
\* least one character that is not white space. For a codes cell that is
\* missing, not a string, empty or white space only, ma_per30 and
\* loafs_per30 come from the snap-gated raw missed_assignments and loafs;
\* for every other string, one without a known token included, they come
\* from the parsed MA and L counts, which may be 0.
C29_OverrideExactly ==
    pc = "done" =>
        LET expected == ExpectedDiscipline(r)
        IN  /\ ma = expected.ma
            /\ loafs = expected.loafs
            /\ out["ma_per30"] = per30(expected.ma, snaps(r))
            /\ out["loafs_per30"] = per30(expected.loafs, snaps(r))

\* a row with raw discipline counters and codes without a known token was
\* graded: the counts 0 replace the raw counters
C29_Witness ==
    /\ pc = "done"
    /\ HasCodes(r, <<"x", "9">>)
    /\ HasInt(r, "snaps", 60)
    /\ HasInt(r, "missed_assignments", 2)
    /\ HasInt(r, "loafs", 1)
    /\ ma = PyInt(0)
    /\ out["ma_per30"] = Dec(0, 0)
    /\ out["loafs_per30"] = Dec(0, 0)

\* a row with raw discipline counters and codes of white space only was
\* graded: the raw counters are used
C29_BlankWitness ==
    /\ pc = "done"
    /\ HasCodes(r, <<" ", " ">>)
    /\ HasInt(r, "snaps", 60)
    /\ HasInt(r, "missed_assignments", 2)
    /\ HasInt(r, "loafs", 1)
    /\ ma = PyInt(2)
    /\ out["ma_per30"] = Dec(1, 0)
    /\ out["loafs_per30"] = Dec(0, 500)

---------------------------------------------------------------------------
(* The weekly workflow, checked under SpecWeek *)

\* the order of the steps: prep, grade, PDFs, group film PDF, dashboards
\* PDF, dashboards HTML, snapshot HTML, season dashboards, site index,
\* season selector
WorkflowOrder == <<"tools/prep_wk7.py", "film_grade.py", "tools/make_pdfs.py",
                   "tools/make_group_film_pdf.py", "tools/make_dashboard.py",
                   "tools/make_dashboard_html.py", "tools/make_snapshot_html.py",
                   "tools/make_season_dashboard_html.py", "tools/make_site_index.py",
                   "tools/make_season_selector.py">>

\* C30: run_week starts its steps one after another in the order prep,
\* grade, PDFs, group film PDF, dashboards PDF, dashboards HTML, snapshot
\* HTML, season dashboards, site index, season selector; a step is started
\* only when every step before it has exited with code 0, and at most one
\* step is running; when the input CSV is not located no step is started,
\* and a step that exits with another code is the last one started.
C30_WorkflowOrder ==
    /\ Len(started) <= Len(WorkflowOrder)
    /\ \A k \in 1..Len(started) : started[k] = WorkflowOrder[k]
    /\ Len(started) - Len(returncodes) \in {0, 1}
    /\ \A k \in 1..Len(started) - 1 : returncodes[k] = 0
    /\ \A k \in 1..Len(returncodes) :
          returncodes[k] # 0 =>
              /\ k = Len(started)
              /\ pc = "raised"
              /\ exc = "CalledProcessError"
    /\ week_args # NoArgs /\ find_csv(week_args).raised # "" => started = <<>>
    /\ pc = "exited" => started = <<>> /\ exc = "SystemExit"
    /\ started # <<>> => csv_path # NoPath
    /\ pc = "finished" =>
          /\ started = WorkflowOrder
          /\ returncodes = [k \in 1..Len(WorkflowOrder) |-> 0]

\* the group film PDF step exited with code 2 after three steps that
\* succeeded: it is the last step started
C30_Witness ==
    /\ pc = "raised"
    /\ Len(started) = 4
    /\ started[4] = "tools/make_group_film_pdf.py"
    /\ returncodes = <<0, 0, 0, 2>>
    /\ csv_path = <<"c", "s", "v", "/", "W", "K", "8", "_", "k", "v", "i", "l", "l", "e", "_", "v", "2", ".", "c", "s", "v">>

\* all ten steps ran
C30_FinishedWitness ==
    /\ pc = "finished"
    /\ Len(started) = 10
    /\ started[10] = "tools/make_season_selector.py"

====
